---- MODULE Spec2Model ----
(***************************************************************************)
(* Job/run orchestration of migrate-guard: the JSON snapshot file kept by  *)
(* FileStorage, the services of domainServices.ts that load the snapshot,  *)
(* change it and save it, and the background run execution started by      *)
(* RunService.triggerComparisonRun.                                        *)
(*                                                                         *)
(* Every service call is an async function.  It is modelled as a task in a *)
(* slot of `procs`; the points where other tasks can run are the awaits of *)
(* the code: storage.load(), storage.save() (fs.writeFile opens the file   *)
(* with truncation and then writes it, so a save has a begin and an end),  *)
(* and runTwoSiteCapture().                                                *)
(*                                                                         *)
(* triggerComparisonRun calls this.executePlaywrightRun(run.id, job).  The *)
(* only method of that name is the one at domainServices.ts:63-130, which  *)
(* the source places in ComparisonJobService, while the status report      *)
(* part_006:21-25 documents it as the run execution of RunService.  The    *)
(* model allows both outcomes of the call at line 456: it reaches that     *)
(* body and the run executes in the background, or it throws a TypeError   *)
(* after the queued run has been saved and the call is rejected.           *)
(***************************************************************************)
EXTENDS Integers, Sequences, FiniteSets, TLC

\* ------------------------------------------------------------- bounds
\* number of service calls made, by concurrent tasks and one at a time
MaxCalls == 2
MaxSeqCalls == 2
\* last reading of the wall clock
MaxClock == 1

\* the snapshot files present at start use the ids 1..InitIds: 1 and 2 for
\* jobs, the others for runs
InitIds == 4
MaxCritical == 1
MaxSitePages == 2
MaxMappings == 1
MaxDepth == 1
MaxIssues == 21
MaxPixels == 20
InitRunIds == 3..InitIds
MaxOf(a, b) == IF a > b THEN a ELSE b
\* every call draws at most one randomUUID() for a job or a run
Ids == 1..(InitIds + MaxOf(MaxCalls, MaxSeqCalls))
NoId == 0

\* the request/background tasks that may be in flight together
Procs == {"t1", "t2"}
SeqProcs == {"t1"}

\* an optional field: absent, or present with a value
Absent == << >>
Some(x) == <<x>>

\* URL strings: empty, relative, and two absolute ones
Undef == "undefined"
Urls == {"", "/rel", "http://a", "http://b"}
ConcUrls == {"http://a", "http://b"}
IsAbsoluteUrl(u) == u \in {"http://a", "http://b"}
\* JavaScript truthiness of an optional string
Truthy(u) == u # Undef /\ u # ""

VARIABLES
  disk,      \* data/snapshot.json: [state: absent | torn | ok, snap]
  procs,     \* the async tasks, one record per slot
  nextId,    \* next value of randomUUID()
  clock,     \* last value read from new Date()
  up,        \* the server process is running
  calls,     \* number of service calls made so far
  seen,      \* run id -> the furthest status persisted for it so far
  created,   \* ids of the jobs ComparisonJobService.createJob returned
  deleted,   \* ids of the jobs ComparisonJobService.deleteJob deleted
  runJob,    \* run id -> job id, for the runs triggerComparisonRun returned
  orphaned,  \* runs persisted as running when the process last stopped
  pipe,      \* the frame of simulateComparisonRunExecution: stage, locals, open contexts
  calc       \* the call of an agent function under way: its arguments and its result

vars == <<disk, procs, nextId, clock, up, calls, seen, created, deleted, runJob, orphaned, pipe, calc>>

\* ------------------------------------------------------------- snapshot
CURRENT_VERSION == "2.0"
NoVersion == "none"

\* metadata: {} has neither lastMigration nor migrationNotes
NoMetadata == [lastMigration |-> << >>, migrationNotes |-> "none"]

emptySnapshot ==
  [version |-> CURRENT_VERSION, comparisonJobs |-> << >>, jobs |-> << >>,
   runs |-> << >>, artifacts |-> << >>,
   metadata |-> NoMetadata]

defaultCrawlConfig == [depth |-> 1, maxPages |-> 10, followExternalLinks |-> FALSE]

defaultTestMatrix == [visual |-> TRUE, functional |-> TRUE, data |-> TRUE, seo |-> TRUE]

Min(a, b) == IF a < b THEN a ELSE b

\* index of the first element with this id, 0 when there is none
FindIndex(seq, id) ==
  IF \E i \in DOMAIN seq : seq[i].id = id
  THEN CHOOSE i \in DOMAIN seq : seq[i].id = id /\ \A j \in 1..(i-1) : seq[j].id # id
  ELSE 0

IdsOf(seq) == {seq[i].id : i \in DOMAIN seq}

\* one legacy job converted by FileStorage.migrateSnapshot
migrateSnapshotJob(job) ==
  [id |-> job.id, baselineUrl |-> job.sourceUrl, candidateUrl |-> job.targetUrl,
   crawlConfig |-> [depth |-> 1, maxPages |-> 10, followExternalLinks |-> FALSE],
   testMatrix |-> [visual |-> TRUE, functional |-> TRUE, data |-> TRUE, seo |-> TRUE],
   pageMap |-> << >>,
   status |-> job.status, createdAt |-> job.createdAt, updatedAt |-> job.updatedAt,
   migratedFrom |-> job.id, snapshotVersion |-> "2.0"]

migrateSnapshot(old, now) ==
  [version |-> CURRENT_VERSION,
   comparisonJobs |-> [i \in DOMAIN old.jobs |-> migrateSnapshotJob(old.jobs[i])],
   jobs |-> << >>,
   runs |-> old.runs,
   artifacts |-> old.artifacts,
   metadata |-> [lastMigration |-> <<now>>, migrationNotes |-> "v1.0 to v2.0"]]

\* what FileStorage.load returns for a readable file
load(file, now) ==
  IF file.version # CURRENT_VERSION THEN migrateSnapshot(file, now) ELSE file

\* ------------------------------------------------------------- jobs
createJobInvalid(input) ==
  \/ ~Truthy(input.baselineUrl) \/ ~Truthy(input.candidateUrl)
  \/ input.baselineUrl = input.candidateUrl

\* a createJob that forgets the jobs already there
createJob_droppingJobs(s, input, id, now) ==
  [s EXCEPT !.comparisonJobs =
     <<[id |-> id, baselineUrl |-> input.baselineUrl, candidateUrl |-> input.candidateUrl,
        crawlConfig |-> defaultCrawlConfig, testMatrix |-> defaultTestMatrix,
      pageMap |-> << >>,
        status |-> "pending", createdAt |-> now, updatedAt |-> now,
        migratedFrom |-> NoId, snapshotVersion |-> "2.0"]>>]

\* input.crawlConfig ?? defaultCrawlConfig and input.testMatrix ??
\* defaultTestMatrix: the default stands in for a missing object, never for a
\* missing member of a given one
createJobNext(s, input, id, now) ==
  [s EXCEPT !.comparisonJobs = Append(@,
     [id |-> id, baselineUrl |-> input.baselineUrl, candidateUrl |-> input.candidateUrl,
      crawlConfig |-> IF "crawlConfig" \in DOMAIN input THEN input.crawlConfig
                      ELSE defaultCrawlConfig,
      testMatrix |-> IF "testMatrix" \in DOMAIN input THEN input.testMatrix
                     ELSE defaultTestMatrix,
      pageMap |-> << >>,
      status |-> "pending", createdAt |-> now, updatedAt |-> now,
      migratedFrom |-> NoId, snapshotVersion |-> "2.0"])]

\* the URL check of updateJob: TRUE when it throws
updateJobInvalid(existingJob, input) ==
  /\ Truthy(input.baselineUrl) \/ Truthy(input.candidateUrl)
  /\ LET baselineUrl == IF input.baselineUrl = Undef THEN existingJob.baselineUrl
                        ELSE input.baselineUrl
         candidateUrl == IF input.candidateUrl = Undef THEN existingJob.candidateUrl
                         ELSE input.candidateUrl
     IN \/ ~Truthy(baselineUrl) \/ ~Truthy(candidateUrl)
        \/ baselineUrl = candidateUrl

\* {...existingJob, ...input, id, createdAt, updatedAt, migratedFrom,
\* snapshotVersion}: every member the input holds goes over the job's, then the
\* five named members are set again
updatedJob(existingJob, input, now) ==
  LET spread ==
        [existingJob EXCEPT
           !.baselineUrl = IF input.baselineUrl = Undef THEN @ ELSE input.baselineUrl,
           !.candidateUrl = IF input.candidateUrl = Undef THEN @ ELSE input.candidateUrl,
           !.id = IF "id" \in DOMAIN input THEN input.id ELSE @,
           !.createdAt = IF "createdAt" \in DOMAIN input THEN input.createdAt ELSE @,
           !.status = IF "status" \in DOMAIN input THEN input.status ELSE @]
  IN [spread EXCEPT
        !.id = existingJob.id,
        !.createdAt = existingJob.createdAt,
        !.updatedAt = now,
        !.migratedFrom = existingJob.migratedFrom,
        !.snapshotVersion = existingJob.snapshotVersion]

updateJobNext(s, id, input, now) ==
  LET jobIndex == FindIndex(s.comparisonJobs, id) IN
  [s EXCEPT !.comparisonJobs =
     [idx \in DOMAIN @ |-> IF idx = jobIndex THEN updatedJob(@[idx], input, now) ELSE @[idx]]]

associatedRunIds(s, id) == {s.runs[i].id : i \in {j \in DOMAIN s.runs : s.runs[j].jobId = id}}

\* a deleteJob that leaves the runs of the job in the snapshot
deleteJob_keepingRuns(s, id) ==
  LET otherJob(j) == j.id # id
  IN [s EXCEPT !.comparisonJobs = SelectSeq(@, otherJob)]

\* a deleteJob that removes the runs of the job but not their artifacts
deleteJob_keepingArtifacts(s, id) ==
  LET otherJob(j) == j.id # id
      otherRun(r) == r.jobId # id
  IN [s EXCEPT !.comparisonJobs = SelectSeq(@, otherJob),
               !.runs = SelectSeq(@, otherRun)]

deleteJobNext(s, id) ==
  LET gone == associatedRunIds(s, id)
      otherJob(j) == j.id # id
      otherRun(r) == r.jobId # id
      otherArtifact(a) == a.runId \notin gone
  IN [s EXCEPT !.comparisonJobs = SelectSeq(@, otherJob),
               !.runs = SelectSeq(@, otherRun),
               !.artifacts = SelectSeq(@, otherArtifact)]

migrateLegacyJob(job, now) ==
  [id |-> job.id, baselineUrl |-> job.sourceUrl, candidateUrl |-> job.targetUrl,
   crawlConfig |-> defaultCrawlConfig, testMatrix |-> defaultTestMatrix,
   pageMap |-> << >>,
   status |-> job.status, createdAt |-> job.createdAt, updatedAt |-> now,
   migratedFrom |-> job.id, snapshotVersion |-> "2.0"]

\* a migration that leaves the legacy jobs in place
migrateLegacyJobs_keepingLegacy(s, now) ==
  [s EXCEPT !.comparisonJobs = @ \o [i \in DOMAIN s.jobs |-> migrateLegacyJob(s.jobs[i], now)],
            !.metadata = [lastMigration |-> <<now>>, migrationNotes |-> "legacy jobs"]]

\* the number migrateLegacyJobs returns, from the task record of its call:
\* 0 when it found no legacy job, else migratedJobs.length
migrateLegacyJobsReturn(pr) == IF pr.res = "zero" THEN 0 ELSE Len(pr.snap.jobs)

migrateLegacyJobsNext(s, now) ==
  [s EXCEPT !.comparisonJobs = @ \o [i \in DOMAIN s.jobs |-> migrateLegacyJob(s.jobs[i], now)],
            !.jobs = << >>,
            !.metadata = [lastMigration |-> <<now>>, migrationNotes |-> "legacy jobs"]]

\* JobService (legacy)
legacyCreateJobNext(s, input, id, now) ==
  [s EXCEPT !.jobs = Append(@,
     [id |-> id, sourceUrl |-> input.sourceUrl, targetUrl |-> input.targetUrl,
      status |-> "pending", createdAt |-> now, updatedAt |-> now])]

legacyDeleteJobNext(s, id) ==
  LET gone == associatedRunIds(s, id)
      otherJob(j) == j.id # id
      otherRun(r) == r.jobId # id
      otherArtifact(a) == a.runId \notin gone
  IN [s EXCEPT !.jobs = SelectSeq(@, otherJob),
               !.runs = SelectSeq(@, otherRun),
               !.artifacts = SelectSeq(@, otherArtifact)]

\* ------------------------------------------------------------- runs
\* the job triggerComparisonRun finds: a ComparisonJob, else a legacy Job
\* converted for this run
triggerJob(s, jobId) ==
  LET c == FindIndex(s.comparisonJobs, jobId)
      l == FindIndex(s.jobs, jobId)
  IN IF c # 0
     THEN [found |-> TRUE, baselineUrl |-> s.comparisonJobs[c].baselineUrl,
           candidateUrl |-> s.comparisonJobs[c].candidateUrl]
     ELSE IF l # 0
     THEN [found |-> TRUE, baselineUrl |-> s.jobs[l].sourceUrl,
           candidateUrl |-> s.jobs[l].targetUrl]
     ELSE [found |-> FALSE, baselineUrl |-> "", candidateUrl |-> ""]

\* the outcome of the checks of triggerComparisonRun
triggerResult(s, jobId) ==
  LET job == triggerJob(s, jobId) IN
  IF ~job.found THEN "not_found"
  ELSE IF ~Truthy(job.baselineUrl) \/ ~Truthy(job.candidateUrl) THEN "invalid"
  ELSE IF job.baselineUrl = job.candidateUrl THEN "invalid"
  ELSE "ok"

queuedRun(id, jobId, now) ==
  [id |-> id, jobId |-> jobId, status |-> "queued", triggeredAt |-> now,
   completedAt |-> Absent]

triggerNext(s, jobId, id, now) ==
  [s EXCEPT !.runs = <<queuedRun(id, jobId, now)>> \o @]

\* the files runTwoSiteCapture returns, baseline first, then candidate
SiteFiles ==
  << [name |-> "screenshot-full", ext |-> "png"], [name |-> "snapshot", ext |-> "html"],
     [name |-> "console", ext |-> "json"], [name |-> "network", ext |-> "json"],
     [name |-> "metadata", ext |-> "json"] >>

artifactPaths ==
  [i \in DOMAIN SiteFiles |-> [site |-> "baseline", name |-> SiteFiles[i].name, ext |-> SiteFiles[i].ext]]
  \o [i \in DOMAIN SiteFiles |-> [site |-> "candidate", name |-> SiteFiles[i].name, ext |-> SiteFiles[i].ext]]

artifactType(p) ==
  IF p.ext = "png" THEN "screenshot" ELSE IF p.ext = "log" THEN "log" ELSE "report"

\* artifact ids are randomUUID() values; <<runId, k>> keeps them distinct
captureArtifacts(runId) ==
  [k \in DOMAIN artifactPaths |->
     [id |-> <<runId, k>>, runId |-> runId, type |-> artifactType(artifactPaths[k]),
      label |-> artifactPaths[k].name,
      path |-> [runId |-> runId, site |-> artifactPaths[k].site,
                name |-> artifactPaths[k].name, ext |-> artifactPaths[k].ext]]]

errorArtifact(runId) ==
  [id |-> <<runId, 0>>, runId |-> runId, type |-> "log", label |-> "Playwright Error",
   path |-> [runId |-> runId, site |-> "", name |-> "playwright-error", ext |-> "log"]]

runningRun(run) == [run EXCEPT !.status = "running"]

runningSnapshot(s, runId) ==
  [s EXCEPT !.runs = [i \in DOMAIN @ |-> IF @[i].id = runId THEN runningRun(@[i]) ELSE @[i]]]

failedRun(run, now) == [run EXCEPT !.status = "failed", !.completedAt = Some(now)]

\* a completion that does not stamp completedAt
completedRun_unstamped(run, now) == [run EXCEPT !.status = "completed"]

completedRun(run, now) == [run EXCEPT !.status = "completed", !.completedAt = Some(now)]

\* rs is the runningSnapshot the execution saved; the run in it is runningRun
failedSnapshot(rs, runId, now) ==
  [rs EXCEPT !.runs = [i \in DOMAIN @ |-> IF @[i].id = runId THEN failedRun(@[i], now) ELSE @[i]],
             !.artifacts = @ \o <<errorArtifact(runId)>>]

finalSnapshot(rs, runId, now) ==
  [rs EXCEPT !.runs = [i \in DOMAIN @ |-> IF @[i].id = runId THEN completedRun(@[i], now) ELSE @[i]],
             !.artifacts = @ \o captureArtifacts(runId)]

\* ------------------------------------------------------------- tasks
\* the input of a call that carries none
NoInput == [baselineUrl |-> Undef, candidateUrl |-> Undef]

IdleProc ==
  [pc |-> "idle", op |-> "none", res |-> "none", id |-> NoId, input |-> NoInput,
   snap |-> emptySnapshot, next |-> emptySnapshot, ovl |-> FALSE]

TornDisk == [state |-> "torn", snap |-> emptySnapshot]
AbsentDisk == [state |-> "absent", snap |-> emptySnapshot]
OkDisk(s) == [state |-> "ok", snap |-> s]

\* the readings new Date() can give next: time does not run backwards; last is
\* the last reading a specification follows the clock to
Nows(last) == {clock, MaxOf(clock, Min(clock + 1, last))}

\* the snapshot storage.load() returns: the file when it parses, migrated when
\* its version is not the current one; emptySnapshot when there is no file
\* (load then writes emptySnapshot itself before it returns)
Loaded(now) ==
  IF disk.state = "ok" THEN load(disk.snap, now) ELSE emptySnapshot

\* A service call up to the return of its storage.load() and the checks that
\* follow: res is the outcome of the checks on the loaded snapshot s, next the
\* snapshot the call goes on to save when res = "ok".
BeginWith(p, op, id, input, s, res, next) ==
  procs' = [procs EXCEPT ![p] =
    IF disk.state = "torn"
    THEN [IdleProc EXCEPT !.pc = "reply", !.op = op, !.res = "io_error", !.id = id,
                          !.input = input]
    ELSE [pc |-> IF disk.state = "absent" THEN "initsave"
                 ELSE IF res = "ok" THEN "save" ELSE "reply",
          op |-> op, res |-> res, id |-> id, input |-> input, snap |-> s,
          next |-> IF res = "ok" THEN next ELSE s, ovl |-> FALSE]]

Begin(p, op, id, s, res, next) == BeginWith(p, op, id, NoInput, s, res, next)

\* a call takes the first free slot: which slot a task sits in means nothing
Before(q, p) == q = "t1" /\ p = "t2"

\* the id a caller passes: of a job that has existed, of a run a call created,
\* or of nothing (the id of a run of the start file names no job either)
ArgIds == (0..(nextId - 1)) \ InitRunIds

Ready(p, c) ==
  /\ up /\ procs[p].pc = "idle"
  /\ \A q \in Procs : procs[q].pc = "idle" => ~Before(q, p)
  /\ calls < c.calls
  /\ calls' = calls + 1

History == <<seen, created, deleted, runJob, orphaned, pipe, calc>>

\* everything but the agent function under way
Store == <<disk, procs, nextId, clock, up, calls, seen, created, deleted, runJob, orphaned, pipe>>

\* the crawlConfig and testMatrix a caller of createJob may add to the two
\* urls: nothing, unless the specification followed says which
InputOptions(c) == IF "options" \in DOMAIN c THEN c.options ELSE {[none \in {} |-> none]}

ComparisonJobService_createJob(p, c) ==
  /\ Ready(p, c)
  /\ \E baselineUrl \in c.urls, candidateUrl \in c.urls, now \in Nows(c.clock),
        options \in InputOptions(c) :
       /\ clock' = now
       /\ LET input == [baselineUrl |-> baselineUrl, candidateUrl |-> candidateUrl] @@ options
              s == Loaded(now)
          IN IF createJobInvalid(input) \/ disk.state = "torn"
             THEN /\ BeginWith(p, "createJob", NoId, input, s, "invalid", s)
                  /\ UNCHANGED nextId
             ELSE /\ BeginWith(p, "createJob", nextId, input, s, "ok",
                               createJobNext(s, input, nextId, now))
                  /\ nextId' = nextId + 1
  /\ UNCHANGED <<disk, up, History>>

\* the members a caller of updateJob may add to the two urls: none, unless the
\* specification followed says which; only such a specification keeps the
\* input of the call in the task's frame
UpdateOptions(c) == IF "updates" \in DOMAIN c THEN c.updates ELSE {[none \in {} |-> none]}

ComparisonJobService_updateJob(p, c) ==
  /\ Ready(p, c)
  /\ \E id \in ArgIds, baselineUrl \in c.urls \cup {Undef}, candidateUrl \in c.urls \cup {Undef},
        now \in Nows(c.clock), options \in UpdateOptions(c) :
       LET input == [baselineUrl |-> baselineUrl, candidateUrl |-> candidateUrl] @@ options
           kept == IF "updates" \in DOMAIN c THEN input ELSE NoInput
           s == Loaded(now)
           jobIndex == FindIndex(s.comparisonJobs, id)
           res == IF jobIndex = 0 THEN "not_found"
                  ELSE IF updateJobInvalid(s.comparisonJobs[jobIndex], input) THEN "invalid"
                  ELSE "ok"
       IN /\ BeginWith(p, "updateJob", id, kept, s, res,
                       IF res = "ok" THEN updateJobNext(s, id, input, now) ELSE s)
          /\ clock' = now
  /\ UNCHANGED <<disk, nextId, up, History>>

ComparisonJobService_deleteJob(p, c) ==
  /\ Ready(p, c)
  /\ \E id \in ArgIds, now \in Nows(c.clock) :
       LET s == Loaded(now)
           res == IF FindIndex(s.comparisonJobs, id) = 0 THEN "false" ELSE "ok"
       IN /\ Begin(p, "deleteJob", id, s, res, deleteJobNext(s, id))
          /\ clock' = now
  /\ UNCHANGED <<disk, nextId, up, History>>

ComparisonJobService_migrateLegacyJobs(p, c) ==
  /\ Ready(p, c)
  /\ \E now \in Nows(c.clock) :
       LET s == Loaded(now)
           res == IF Len(s.jobs) = 0 THEN "zero" ELSE "ok"
       IN /\ Begin(p, "migrateLegacyJobs", NoId, s, res, migrateLegacyJobsNext(s, now))
          /\ clock' = now
  /\ UNCHANGED <<disk, nextId, up, History>>

JobService_createJob(p, c) ==
  /\ Ready(p, c)
  /\ \E sourceUrl \in c.urls, targetUrl \in c.urls, now \in Nows(c.clock) :
       LET input == [sourceUrl |-> sourceUrl, targetUrl |-> targetUrl]
           s == Loaded(now)
       IN /\ Begin(p, "legacyCreateJob", nextId, s, "ok",
                   legacyCreateJobNext(s, input, nextId, now))
          /\ nextId' = IF disk.state = "torn" THEN nextId ELSE nextId + 1
          /\ clock' = now
  /\ UNCHANGED <<disk, up, History>>

JobService_deleteJob(p, c) ==
  /\ Ready(p, c)
  /\ \E id \in ArgIds, now \in Nows(c.clock) :
       LET s == Loaded(now)
           res == IF FindIndex(s.jobs, id) = 0 THEN "false" ELSE "ok"
       IN /\ Begin(p, "legacyDeleteJob", id, s, res, legacyDeleteJobNext(s, id))
          /\ clock' = now
  /\ UNCHANGED <<disk, nextId, up, History>>

\* triggerComparisonRun up to its save; the run id is kept in the slot
RunService_triggerComparisonRun(p, c) ==
  /\ Ready(p, c)
  /\ \E jobId \in ArgIds, now \in Nows(c.clock) :
       /\ clock' = now
       /\ LET s == Loaded(now)
              res == triggerResult(s, jobId)
          IN IF res # "ok" \/ disk.state = "torn"
             THEN /\ Begin(p, "triggerComparisonRun", jobId, s, res, s)
                  /\ UNCHANGED nextId
             ELSE /\ Begin(p, "triggerComparisonRun", nextId, s, "ok",
                           triggerNext(s, jobId, nextId, now))
                  /\ nextId' = nextId + 1
  /\ UNCHANGED <<disk, up, History>>

\* ------------------------------------------------------------- storage
Writing(q) == procs[q].pc \in {"writing", "initwriting"}

\* writes of a task's snapshot that become visible in the history variables
Furthest(old, new) ==
  IF old = "none" THEN new
  ELSE IF old \in {"completed", "failed"} THEN old
  ELSE IF old = "running" /\ new = "queued" THEN old
  ELSE new

StatusIn(s, r) ==
  IF r \in IdsOf(s.runs) THEN s.runs[FindIndex(s.runs, r)].status ELSE "none"

SeenAfter(d) ==
  IF d.state # "ok" THEN seen
  ELSE [r \in Ids |-> IF StatusIn(d.snap, r) = "none" THEN seen[r]
                      ELSE Furthest(seen[r], StatusIn(d.snap, r))]

\* fs.writeFile(SNAPSHOT_FILE, ...) opens the file with truncation
FileStorage_save_begin(p) ==
  /\ up
  /\ procs[p].pc \in {"save", "initsave"}
  /\ disk' = TornDisk
  /\ procs' = [q \in Procs |->
       IF q = p
       THEN [procs[p] EXCEPT !.pc = IF @ = "save" THEN "writing" ELSE "initwriting",
                             !.ovl = \E w \in Procs : Writing(w)]
       ELSE IF Writing(q) THEN [procs[q] EXCEPT !.ovl = TRUE] ELSE procs[q]]
  /\ UNCHANGED <<nextId, clock, up, calls, History>>

\* ... and then writes the text.  Two writes in flight on the one file each
\* write from offset 0: the file ends as the text of the later one or as a
\* mix of the two that does not parse.
WrittenDisk(p, content) ==
  IF procs[p].ovl THEN {OkDisk(content), TornDisk} ELSE {OkDisk(content)}

\* the save inside load() when there was no file: emptySnapshot is written,
\* load returns, and the call goes on with the checks it made on emptySnapshot
FileStorage_load_saved(p) ==
  /\ up
  /\ procs[p].pc = "initwriting"
  /\ \E d \in WrittenDisk(p, emptySnapshot) :
       /\ disk' = d
       /\ seen' = SeenAfter(d)
  /\ procs' = [procs EXCEPT ![p].pc = IF procs[p].res = "ok" THEN "save" ELSE "reply",
                            ![p].ovl = FALSE]
  /\ UNCHANGED <<nextId, clock, up, calls, created, deleted, runJob, orphaned, pipe, calc>>

\* the end of storage.save(next) of a service call or of the run execution
FileStorage_save_end(p) ==
  /\ up
  /\ procs[p].pc = "writing"
  /\ \E d \in WrittenDisk(p, procs[p].next) :
       /\ disk' = d
       /\ seen' = SeenAfter(d)
  /\ \E started \in IF procs[p].op = "triggerComparisonRun" THEN BOOLEAN ELSE {FALSE} :
     LET me == procs[p] IN
     /\ procs' = [procs EXCEPT ![p] =
          CASE me.op = "triggerComparisonRun" /\ started ->
                 [IdleProc EXCEPT !.pc = "execload", !.op = "executePlaywrightRun",
                                  !.id = me.id]
            [] me.op = "triggerComparisonRun" /\ ~started ->
                 [me EXCEPT !.pc = "reply", !.res = "type_error", !.ovl = FALSE]
            [] me.op = "executePlaywrightRun" ->
                 [me EXCEPT !.pc = "capture", !.snap = me.next, !.ovl = FALSE]
            [] me.op = "executePlaywrightRun_end" -> IdleProc
            [] OTHER -> [me EXCEPT !.pc = "reply", !.ovl = FALSE]]
     /\ created' = IF me.op = "createJob" THEN created \cup {me.id} ELSE created
     /\ deleted' = IF me.op = "deleteJob" THEN deleted \cup {me.id} ELSE deleted
     /\ runJob' = IF me.op = "triggerComparisonRun" /\ started
                  THEN [runJob EXCEPT ![me.id] = me.next.runs[1].jobId] ELSE runJob
  /\ UNCHANGED <<nextId, clock, up, calls, orphaned, pipe, calc>>

\* the route handler sends the response of a finished service call
Reply(p) ==
  /\ up
  /\ procs[p].pc = "reply"
  /\ procs' = [procs EXCEPT ![p] = IdleProc]
  /\ UNCHANGED <<disk, nextId, clock, up, calls, History>>

\* ------------------------------------------------------------- run execution
\* executePlaywrightRun: load, find the run, build runningSnapshot
executePlaywrightRun_load(p, c) ==
  /\ up
  /\ procs[p].pc = "execload"
  /\ \E now \in Nows(c.clock) :
       /\ clock' = now
       /\ LET s == Loaded(now)
              runId == procs[p].id
          IN procs' = [procs EXCEPT ![p] =
               IF disk.state = "torn" \/ runId \notin IdsOf(s.runs)
               THEN IdleProc
               ELSE [procs[p] EXCEPT !.pc = "save", !.snap = s,
                                     !.next = runningSnapshot(s, runId)]]
  /\ UNCHANGED <<disk, nextId, up, calls, History>>

\* runTwoSiteCapture returns its files or throws; the terminal snapshot is
\* built from the runningSnapshot saved before
\* runTwoSiteCapture captures the baseline site, then the candidate site, and
\* rejects at the first site that fails; the paths it collected are returned
\* only when both sites were captured
CaptureFailures == {"none", "baseline", "candidate"}

executePlaywrightRun_capture(p, c) ==
  /\ up
  /\ procs[p].pc = "capture"
  /\ \E now \in Nows(c.clock), failing \in CaptureFailures :
       /\ clock' = now
       /\ procs' = [procs EXCEPT ![p].pc = "save",
                                 ![p].op = "executePlaywrightRun_end",
                                 ![p].res = failing,
                                 ![p].next =
            IF failing = "none" THEN finalSnapshot(procs[p].snap, procs[p].id, now)
            ELSE failedSnapshot(procs[p].snap, procs[p].id, now)]
  /\ UNCHANGED <<disk, nextId, up, calls, History>>

\* ------------------------------------------------------------- process
RunningIn(d) ==
  IF d.state # "ok" THEN {}
  ELSE {d.snap.runs[i].id : i \in {j \in DOMAIN d.snap.runs : d.snap.runs[j].status = "running"}}

\* the process is killed: every task in flight is gone, the file stays as it is
Crash ==
  /\ up
  /\ up' = FALSE
  /\ procs' = [q \in Procs |-> IdleProc]
  /\ orphaned' = RunningIn(disk)
  /\ UNCHANGED <<disk, nextId, clock, calls, seen, created, deleted, runJob, pipe, calc>>

\* buildServer(): registers the routes and listens; it does not touch the
\* snapshot
buildServer ==
  /\ ~up
  /\ up' = TRUE
  /\ UNCHANGED <<disk, procs, nextId, clock, calls, seen, created, deleted, runJob, orphaned, pipe, calc>>

\* ------------------------------------------------------------- staged pipeline
\* RunService.simulateComparisonRunExecution(runId, job).  pipe is its frame:
\* the position in the body, the locals (job, runningSnapshot, now, artifacts,
\* the three optional diff results), the browser contexts
\* PlaywrightExecutionService holds open, the files written under
\* data/artifacts, and the stages in the order they started and ended.
Stages == <<"Crawl", "Capture", "Functional", "Data", "Visual", "Reasoning", "Report">>

NoJob == createJobNext(emptySnapshot, NoInput, NoId, 0).comparisonJobs[1]

NoFrame ==
  [pc |-> "none", runId |-> NoId, job |-> NoJob, rs |-> emptySnapshot, now |-> 0,
   artifacts |-> << >>, matched |-> FALSE, results |-> {}, contexts |-> {},
   files |-> {}, trace |-> << >>, thrown |-> "none", unreachable |-> {}]

\* a file of a run below DATA_DIR (an absolute path, config.ts)
DataFile(runId, name) == [root |-> "DATA_DIR", runId |-> runId, name |-> name]

\* p.replace(/^.*[\\/]data[\\/]/, 'data/')
relativePath(p) == [p EXCEPT !.root = "data"]

\* artifacts.push({id: randomUUID(), runId, type, label, path, createdAt})
pushArtifact(artifacts, runId, type, label, path) ==
  Append(artifacts, [id |-> <<runId, Len(artifacts) + 1>>, runId |-> runId,
                     type |-> type, label |-> label, path |-> path])

Started(f, stage) == [f EXCEPT !.trace = Append(@, <<"start", stage>>)]
Ended(f, stage) == [f EXCEPT !.trace = Append(@, <<"end", stage>>)]
\* control leaves the try block for the catch clause
Thrown(f, stage) == [f EXCEPT !.pc = "catch", !.thrown = stage]

simulateComparisonRunExecution_begin(c) ==
  /\ pipe.pc = "begin"
  /\ disk.state = "ok"
  /\ \E now \in Nows(c.clock) :
       /\ clock' = now
       /\ LET snapshot == load(disk.snap, now)
          IN IF pipe.runId \notin IdsOf(snapshot.runs)
             THEN /\ pipe' = [pipe EXCEPT !.pc = "returned"]
                  /\ UNCHANGED disk
             ELSE /\ disk' = OkDisk(runningSnapshot(snapshot, pipe.runId))
                  /\ pipe' = [pipe EXCEPT !.pc = "Crawl", !.now = now,
                                          !.rs = runningSnapshot(snapshot, pipe.runId)]
  /\ UNCHANGED <<procs, nextId, up, calls, seen, created, deleted, runJob, orphaned, calc>>

\* the job with the pageMap the crawl generated
pageMapJob(job, now) == [job EXCEPT !.pageMap = <<"generated">>, !.updatedAt = now]

updatedSnapshot(rs, job, now) ==
  [rs EXCEPT !.comparisonJobs =
     [i \in DOMAIN @ |-> IF i = FindIndex(@, job.id) THEN pageMapJob(job, now) ELSE @[i]]]

\* crawlAgent.crawlComparison, the pageMap update and the crawl summary.
\* crawlPage catches the error of a page that cannot be fetched and returns
\* null (crawlAgent.ts:260-263): a site that is unreachable gives a crawl
\* result without pages, hence no matched page, and no exception.
\* crawlComparison throws when the browser cannot be started or an artifact
\* cannot be written.
Stage_Crawl ==
  /\ pipe.pc = "Crawl"
  /\ LET f0 == Started(pipe, "Crawl")
         runId == pipe.runId
     IN \/ /\ pipe' = Thrown(f0, "Crawl")
           /\ UNCHANGED disk
        \/ \E unreachable \in SUBSET {"baseline", "candidate"},
              matched \in BOOLEAN, summaryWritten \in BOOLEAN :
             /\ matched => unreachable = {}
             /\ LET f1 == [f0 EXCEPT
                        !.matched = matched,
                        !.unreachable = unreachable,
                        !.files = @ \cup {DataFile(runId, "generated-pageMap.json")},
                        !.artifacts = pushArtifact(@, runId, "report", "Generated Page Map",
                           relativePath(DataFile(runId, "generated-pageMap.json")))]
                    saves == /\ matched
                             /\ pipe.job.pageMap = << >>
                             /\ pipe.job.id \in IdsOf(pipe.rs.comparisonJobs)
                    f2 == [f1 EXCEPT
                        !.files = @ \cup {DataFile(runId, "crawl-summary.json")},
                        !.artifacts = pushArtifact(@, runId, "report", "Crawl Summary",
                           relativePath(DataFile(runId, "crawl-summary.json")))]
                IN /\ disk' = IF saves THEN OkDisk(updatedSnapshot(pipe.rs, pipe.job, pipe.now))
                              ELSE disk
                   /\ pipe' = IF summaryWritten
                              THEN [Ended(f2, "Crawl") EXCEPT !.pc = "Capture"]
                              ELSE Thrown(f1, "Crawl")
  /\ UNCHANGED <<procs, nextId, clock, up, calls, seen, created, deleted, runJob, orphaned, calc>>

BothContexts == {"baselineContext", "candidateContext"}

\* executionService.executeComparison: initialize opens both contexts; a
\* failure inside its try block runs cleanup() and rethrows, a failure of
\* initialize() itself leaves what it had opened
Stage_Capture ==
  /\ pipe.pc = "Capture"
  /\ LET runId == pipe.runId
         f0 == Started(pipe, "Capture")
         f1 == [f0 EXCEPT
             !.contexts = BothContexts,
             !.files = @ \cup {DataFile(runId, "execution-results.json"),
                               DataFile(runId, "baseline-screenshot.png"),
                               DataFile(runId, "candidate-screenshot.png")},
             !.artifacts =
                pushArtifact(
                  pushArtifact(
                    pushArtifact(@, runId, "report", "execution-results",
                                 relativePath(DataFile(runId, "execution-results.json"))),
                    runId, "screenshot", "Baseline", DataFile(runId, "baseline-screenshot.png")),
                  runId, "screenshot", "Candidate", DataFile(runId, "candidate-screenshot.png"))]
     IN IF ~pipe.matched
        THEN pipe' = [pipe EXCEPT !.pc = "Reasoning"]
        ELSE \/ pipe' = [Ended(f1, "Capture") EXCEPT !.pc = "Functional"]
             \/ \E open \in {{}, {"baselineContext"}} :
                  pipe' = Thrown([f0 EXCEPT !.contexts = open], "Capture")
  /\ UNCHANGED <<disk, procs, nextId, clock, up, calls, seen, created, deleted, runJob, orphaned, calc>>

\* functionalQaAgent.executeFunctionalQAWithContexts on the open contexts
Stage_Functional ==
  /\ pipe.pc = "Functional"
  /\ LET runId == pipe.runId
         f0 == Started(pipe, "Functional")
         f1 == [f0 EXCEPT
             !.results = @ \cup {"functionalQaResult"},
             !.files = @ \cup {DataFile(runId, "functional-qa-results.json"),
                               DataFile(runId, "baseline.har"), DataFile(runId, "candidate.har")},
             !.artifacts =
                pushArtifact(
                  pushArtifact(
                    pushArtifact(@, runId, "report", "Functional QA Results",
                                 relativePath(DataFile(runId, "functional-qa-results.json"))),
                    runId, "report", "Baseline HAR", DataFile(runId, "baseline.har")),
                  runId, "report", "Candidate HAR", DataFile(runId, "candidate.har"))]
     IN IF ~(pipe.job.testMatrix.functional /\ pipe.contexts = BothContexts)
        THEN pipe' = [pipe EXCEPT !.pc = "Data"]
        ELSE \/ pipe' = [Ended(f1, "Functional") EXCEPT !.pc = "Data"]
             \/ pipe' = Thrown(f0, "Functional")
  /\ UNCHANGED <<disk, procs, nextId, clock, up, calls, seen, created, deleted, runJob, orphaned, calc>>

\* dataIntegrityAgent.executeDataIntegrityCheckWithContexts
Stage_Data ==
  /\ pipe.pc = "Data"
  /\ LET runId == pipe.runId
         f0 == Started(pipe, "Data")
         f1 == [f0 EXCEPT
             !.results = @ \cup {"dataIntegrityResult"},
             !.files = @ \cup {DataFile(runId, "data-integrity-results.json")},
             !.artifacts = pushArtifact(@, runId, "report", "Data Integrity Results",
                              relativePath(DataFile(runId, "data-integrity-results.json")))]
     IN IF ~(pipe.job.testMatrix.data /\ pipe.contexts = BothContexts)
        THEN pipe' = [pipe EXCEPT !.pc = "close"]
        ELSE \/ pipe' = [Ended(f1, "Data") EXCEPT !.pc = "close"]
             \/ pipe' = Thrown(f0, "Data")
  /\ UNCHANGED <<disk, procs, nextId, clock, up, calls, seen, created, deleted, runJob, orphaned, calc>>

\* a pipeline that goes from the context cleanup straight to the reasoning
closeContexts_skippingVisual ==
  /\ pipe.pc = "close"
  /\ pipe' = [pipe EXCEPT !.pc = "Reasoning", !.contexts = {}]
  /\ UNCHANGED <<disk, procs, nextId, clock, up, calls, seen, created, deleted, runJob, orphaned, calc>>

\* baselineContext.close(), candidateContext.close(), executionService.cleanup();
\* a close() that rejects leaves its context and the later ones open
closeContexts ==
  /\ pipe.pc = "close"
  /\ \/ pipe' = [pipe EXCEPT !.pc = "Visual", !.contexts = {}]
     \/ \E open \in {BothContexts, {"candidateContext"}} :
          pipe' = Thrown([pipe EXCEPT !.contexts = open], "close")
  /\ UNCHANGED <<disk, procs, nextId, clock, up, calls, seen, created, deleted, runJob, orphaned, calc>>

\* visualDiffService.compareExecutionResults
Stage_Visual ==
  /\ pipe.pc = "Visual"
  /\ LET runId == pipe.runId
         f0 == Started(pipe, "Visual")
         f1 == [f0 EXCEPT
             !.results = @ \cup {"visualDiffResult"},
             !.files = @ \cup {DataFile(runId, "visual-diff-results.json"),
                               DataFile(runId, "diff.png"), DataFile(runId, "heatmap.png")},
             !.artifacts =
                pushArtifact(
                  pushArtifact(
                    pushArtifact(@, runId, "report", "Visual Diff Results",
                                 relativePath(DataFile(runId, "visual-diff-results.json"))),
                    runId, "screenshot", "Diff", DataFile(runId, "diff.png")),
                  runId, "screenshot", "Heatmap", DataFile(runId, "heatmap.png"))]
     IN IF ~pipe.job.testMatrix.visual
        THEN pipe' = [pipe EXCEPT !.pc = "Reasoning"]
        ELSE \/ pipe' = [Ended(f1, "Visual") EXCEPT !.pc = "Reasoning"]
             \/ pipe' = Thrown(f0, "Visual")
  /\ UNCHANGED <<disk, procs, nextId, clock, up, calls, seen, created, deleted, runJob, orphaned, calc>>

\* aiReasoningService.analyzeArtifacts and saveResults
Stage_Reasoning ==
  /\ pipe.pc = "Reasoning"
  /\ LET runId == pipe.runId
         f0 == Started(pipe, "Reasoning")
         f1 == [f0 EXCEPT
             !.files = @ \cup {DataFile(runId, "ai-reasoning-results.json")},
             !.artifacts = pushArtifact(@, runId, "report", "AI Reasoning Results",
                              relativePath(DataFile(runId, "ai-reasoning-results.json")))]
     IN \/ pipe' = [Ended(f1, "Reasoning") EXCEPT !.pc = "Report"]
        \/ pipe' = Thrown(f0, "Reasoning")
  /\ UNCHANGED <<disk, procs, nextId, clock, up, calls, seen, created, deleted, runJob, orphaned, calc>>

\* reportAgent.generateReport and saveReport
Stage_Report ==
  /\ pipe.pc = "Report"
  /\ LET runId == pipe.runId
         f0 == Started(pipe, "Report")
         f1 == [f0 EXCEPT
             !.files = @ \cup {DataFile(runId, "report.json"), DataFile(runId, "report.md")},
             !.artifacts =
                pushArtifact(
                  pushArtifact(@, runId, "report", "Migration Test Report (JSON)",
                               DataFile(runId, "report.json")),
                  runId, "report", "Migration Test Report (Markdown)",
                  DataFile(runId, "report.md"))]
     IN \/ pipe' = [Ended(f1, "Report") EXCEPT !.pc = "complete"]
        \/ pipe' = Thrown(f0, "Report")
  /\ UNCHANGED <<disk, procs, nextId, clock, up, calls, seen, created, deleted, runJob, orphaned, calc>>

\* the snapshot either exit saves: runningSnapshot with the run replaced and
\* the artifacts collected so far appended
exitSnapshot(rs, run, artifacts) ==
  [rs EXCEPT !.runs = [i \in DOMAIN @ |-> IF @[i].id = run.id THEN run ELSE @[i]],
             !.artifacts = @ \o artifacts]

runIn(s, runId) == s.runs[FindIndex(s.runs, runId)]

\* the catch clause: one log artifact, no file written, the run saved failed
simulateComparisonRunExecution_catch(c) ==
  /\ pipe.pc = "catch"
  /\ \E now \in Nows(c.clock) :
       /\ clock' = now
       /\ LET artifacts == pushArtifact(pipe.artifacts, pipe.runId, "log", "Crawl Error",
                              relativePath(DataFile(pipe.runId, "crawl-error.log")))
          IN /\ disk' = OkDisk(exitSnapshot(pipe.rs, failedRun(runIn(pipe.rs, pipe.runId), now),
                                            artifacts))
             /\ pipe' = [pipe EXCEPT !.pc = "returned", !.artifacts = artifacts]
  /\ UNCHANGED <<procs, nextId, up, calls, seen, created, deleted, runJob, orphaned, calc>>

simulateComparisonRunExecution_complete(c) ==
  /\ pipe.pc = "complete"
  /\ \E now \in Nows(c.clock) :
       /\ clock' = now
       /\ disk' = OkDisk(exitSnapshot(pipe.rs, completedRun(runIn(pipe.rs, pipe.runId), now),
                                      pipe.artifacts))
       /\ pipe' = [pipe EXCEPT !.pc = "returned"]
  /\ UNCHANGED <<procs, nextId, up, calls, seen, created, deleted, runJob, orphaned, calc>>

\* ------------------------------------------------------------- report agent
\* ReportAgent (reportAgent.ts).  An AIReasoningResult is
\* [categoryAnalyses, overallSeverity, overallPass]; a category analysis is
\* [category, severity].
Severities == <<"none", "low", "medium", "high", "critical">>
SeveritySet == {Severities[i] : i \in DOMAIN Severities}
Categories == <<"visual", "functional", "data", "seo">>

\* the literal map of severityToRiskScore
riskMap == [none |-> 0, low |-> 25, medium |-> 50, high |-> 75, critical |-> 100]

\* map[severity] || 50: a value that is undefined or 0 gives 50
severityToRiskScore(severity) ==
  IF severity \in DOMAIN riskMap /\ riskMap[severity] # 0 THEN riskMap[severity] ELSE 50

\* Math.round(n / d) for n >= 0 and d > 0
RoundDiv(n, d) == (2 * n + d) \div (2 * d)

\* the risk the switch leaves for a category: that of its last analysis, 0 when it has none
categoryRisk(analyses, category) ==
  LET at == {i \in DOMAIN analyses : analyses[i].category = category}
  IN IF at = {} THEN 0
     ELSE severityToRiskScore(analyses[CHOOSE i \in at : \A j \in at : j <= i].severity)

calculateRiskScore(aiResult) ==
  LET analyses == aiResult.categoryAnalyses
      visualRisk == categoryRisk(analyses, "visual")
      functionalRisk == categoryRisk(analyses, "functional")
      dataRisk == categoryRisk(analyses, "data")
      seoRisk == categoryRisk(analyses, "seo")
      categoryCount == Len(analyses)
  IN [overall |-> IF categoryCount > 0
                  THEN RoundDiv(visualRisk + functionalRisk + dataRisk + seoRisk, categoryCount)
                  ELSE severityToRiskScore(aiResult.overallSeverity),
      visual |-> visualRisk, functional |-> functionalRisk, data |-> dataRisk,
      seo |-> seoRisk]

\* a decision that does not look at the reasoner's overall pass
goNoGo_ignoringPass(overall, overallPass, criticalIssues) ==
  IF overall >= 75 THEN "no-go"
  ELSE IF overall >= 50 \/ criticalIssues > 0 THEN "conditional"
  ELSE "go"

\* the Go/No-Go decision of generateExecutiveSummary
goNoGo(overall, overallPass, criticalIssues) ==
  IF overall >= 75 \/ ~overallPass THEN "no-go"
  ELSE IF overall >= 50 \/ criticalIssues > 0 THEN "conditional"
  ELSE "go"

\* generateReport: calculateRiskScore, then generateExecutiveSummary on its result
ReportAgent_generateReport ==
  /\ calc.fn = "generateReport" /\ calc.pc = "call"
  /\ LET riskScore == calculateRiskScore(calc.aiResult)
     IN calc' = [calc EXCEPT !.pc = "done", !.riskScore = riskScore,
                             !.goNoGo = goNoGo(riskScore.overall, calc.aiResult.overallPass,
                                               calc.criticalIssues)]
  /\ UNCHANGED Store

\* generateExecutiveSummary called with a RiskScore of the caller
ReportAgent_generateExecutiveSummary ==
  /\ calc.fn = "generateExecutiveSummary" /\ calc.pc = "call"
  /\ calc' = [calc EXCEPT !.pc = "done",
                          !.goNoGo = goNoGo(calc.riskScore.overall, calc.aiResult.overallPass,
                                            calc.criticalIssues)]
  /\ UNCHANGED Store

\* ------------------------------------------------------------- page matching
\* CrawlAgent.matchPages (crawlAgent.ts).  A path is the sequence of its
\* segments (<< >> is "/"); the url of a crawled page is its origin followed by
\* the path without a trailing slash, its normalizedPath is the path.
CrawledPage(origin, path, title) ==
  [url |-> [origin |-> origin, path |-> path], normalizedPath |-> path, title |-> title]

\* url.endsWith(path): the text "/seg/.../seg" ends the text of the url; no
\* url ends with "/"
endsWith(url, path) ==
  /\ path # << >>
  /\ Len(url.path) >= Len(path)
  /\ SubSeq(url.path, Len(url.path) - Len(path) + 1, Len(url.path)) = path

\* title.toLowerCase().trim()
lowerTrim(title) == IF title = "home " THEN "Home" ELSE title

\* pages.find(test) for the indexes of the pages that pass the test: the first
\* of them, 0 when there is none
find(hits) == IF hits = {} THEN 0 ELSE CHOOSE i \in hits : \A j \in hits : i <= j

\* lines 354-375: one pass over the mappings, in order
RECURSIVE explicitMatches(_, _, _, _, _)
explicitMatches(baselinePages, candidatePages, pageMap, k, matches) ==
  IF k > Len(pageMap) THEN matches
  ELSE LET mapping == pageMap[k]
           b == find({i \in DOMAIN baselinePages :
                        \/ baselinePages[i].normalizedPath = mapping.baselinePath
                        \/ endsWith(baselinePages[i].url, mapping.baselinePath)})
           c == find({i \in DOMAIN candidatePages :
                        \/ candidatePages[i].normalizedPath = mapping.candidatePath
                        \/ endsWith(candidatePages[i].url, mapping.candidatePath)})
       IN explicitMatches(baselinePages, candidatePages, pageMap, k + 1,
            IF b # 0 /\ c # 0
            THEN Append(matches, [baseline |-> baselinePages[b], candidate |-> candidatePages[c],
                                  confidence |-> "1.0", matchReason |-> "Explicit pageMap mapping"])
            ELSE matches)

baselineMatched(matches, page) == \E i \in DOMAIN matches : matches[i].baseline.url = page.url
candidateMatched(matches, page) == \E i \in DOMAIN matches : matches[i].candidate.url = page.url

\* lines 377-393: one pass over the baseline pages
RECURSIVE pathMatches(_, _, _, _)
pathMatches(baselinePages, candidatePages, k, matches) ==
  IF k > Len(baselinePages) THEN matches
  ELSE LET baselinePage == baselinePages[k]
           c == find({i \in DOMAIN candidatePages :
                        candidatePages[i].normalizedPath = baselinePage.normalizedPath})
       IN pathMatches(baselinePages, candidatePages, k + 1,
            IF ~baselineMatched(matches, baselinePage) /\ c # 0
            THEN Append(matches, [baseline |-> baselinePage, candidate |-> candidatePages[c],
                                  confidence |-> "0.9", matchReason |-> "Exact path match"])
            ELSE matches)

\* lines 395-419: one pass over the baseline pages
RECURSIVE titleMatches(_, _, _, _)
titleMatches(baselinePages, candidatePages, k, matches) ==
  IF k > Len(baselinePages) THEN matches
  ELSE LET baselinePage == baselinePages[k]
           c == find({i \in DOMAIN candidatePages :
                        /\ ~candidateMatched(matches, candidatePages[i])
                        /\ candidatePages[i].title # ""
                        /\ lowerTrim(candidatePages[i].title) = lowerTrim(baselinePage.title)})
       IN titleMatches(baselinePages, candidatePages, k + 1,
            IF ~baselineMatched(matches, baselinePage) /\ baselinePage.title # "" /\ c # 0
            THEN Append(matches, [baseline |-> baselinePage, candidate |-> candidatePages[c],
                                  confidence |-> "0.7", matchReason |-> "Title match"])
            ELSE matches)

matchPages(baselinePages, candidatePages, existingPageMap) ==
  titleMatches(baselinePages, candidatePages, 1,
    pathMatches(baselinePages, candidatePages, 1,
      explicitMatches(baselinePages, candidatePages, existingPageMap, 1, << >>)))

CrawlAgent_matchPages ==
  /\ calc.fn = "matchPages" /\ calc.pc = "call"
  /\ calc' = [calc EXCEPT !.pc = "done",
                          !.matches = matchPages(calc.baseline, calc.candidate, calc.pageMap)]
  /\ UNCHANGED Store

\* ------------------------------------------------------------- capture order
\* PlaywrightExecutionService.executeComparison runs executeSite for the two
\* sites under Promise.all: two async tasks, each capturing its pages one
\* after the other.  runTwoSiteCapture awaits captureSite for the baseline,
\* then for the candidate.  calc.log lists the captures as they start and end.
Sites == <<"baseline", "candidate">>

\* executeSite(site) reaches executePage for its next page.  Promise.all
\* evaluates its array in order: the baseline task starts its first page
\* before the candidate task is called.
executeSite_executePage(site) ==
  /\ calc.fn = "executeComparison"
  /\ ~calc.busy[site]
  /\ calc.pos[site] < calc.pages
  /\ site = "candidate" => (calc.pos["baseline"] > 0 \/ calc.busy["baseline"])
  /\ calc' = [calc EXCEPT !.busy[site] = TRUE,
                          !.log = Append(@, <<"start", site, calc.pos[site] + 1>>)]
  /\ UNCHANGED Store

\* executePage settles: its result is pushed, or its error is caught and
\* logged (lines 927-942); either way the loop goes on
executeSite_pageSettled(site) ==
  /\ calc.fn = "executeComparison"
  /\ calc.busy[site]
  /\ \E ev \in {"end", "failed"} :
       calc' = [calc EXCEPT !.busy[site] = FALSE, !.pos[site] = @ + 1,
                            !.log = Append(@, <<ev, site, calc.pos[site] + 1>>)]
  /\ UNCHANGED Store

\* runTwoSiteCapture: captureSite(url, site) is entered
captureSite_begin ==
  /\ calc.fn = "runTwoSiteCapture"
  /\ calc.site \in DOMAIN Sites /\ ~calc.capturing
  /\ calc' = [calc EXCEPT !.capturing = TRUE, !.log = Append(@, <<"start", Sites[calc.site], 1>>)]
  /\ UNCHANGED Store

\* captureSite returns, or throws and ends runTwoSiteCapture
captureSite_settled ==
  /\ calc.fn = "runTwoSiteCapture"
  /\ calc.capturing
  /\ \/ calc' = [calc EXCEPT !.capturing = FALSE, !.site = @ + 1,
                              !.log = Append(@, <<"end", Sites[calc.site], 1>>)]
     \/ calc' = [calc EXCEPT !.capturing = FALSE, !.site = Len(Sites) + 1,
                              !.log = Append(@, <<"failed", Sites[calc.site], 1>>)]
  /\ UNCHANGED Store

\* ------------------------------------------------------------- start
\* Snapshot files an earlier life of the program can have left behind.  The
\* v1 program (fileStorage.ts, models.ts) wrote {jobs, runs, artifacts} with no
\* version and checked no URL.
LegacyJob(id, sourceUrl, targetUrl) ==
  [id |-> id, sourceUrl |-> sourceUrl, targetUrl |-> targetUrl,
   status |-> "pending", createdAt |-> 0, updatedAt |-> 0]

V1File(jobs, runs, artifacts) ==
  [version |-> NoVersion, comparisonJobs |-> << >>, jobs |-> jobs,
   runs |-> runs, artifacts |-> artifacts,
   metadata |-> NoMetadata]

FileLegacy == V1File(<<LegacyJob(1, "http://a", "http://b")>>, << >>, << >>)

FileLegacyRun ==
  V1File(<<LegacyJob(1, "http://a", "http://b")>>,
         <<failedRun(queuedRun(3, 1, 0), 0)>>, <<errorArtifact(3)>>)

FileLegacySameUrl == V1File(<<LegacyJob(1, "http://a", "http://a")>>, << >>, << >>)

FileCurrent ==
  createJobNext(emptySnapshot, [baselineUrl |-> "http://a", candidateUrl |-> "http://b"], 1, 0)

\* two jobs that each had a run: one completed with its captures, one failed
FileTwoJobs ==
  LET jobs == createJobNext(FileCurrent,
                [baselineUrl |-> "http://b", candidateUrl |-> "http://a"], 2, 0)
  IN [jobs EXCEPT
        !.runs = <<failedRun(runningRun(queuedRun(4, 2, 0)), 0),
                   completedRun(runningRun(queuedRun(3, 1, 0)), 0)>>,
        !.artifacts = captureArtifacts(3) \o <<errorArtifact(4)>>]

\* no agent function is being called
NoCalc == [fn |-> "none"]

InitStore(disks) ==
  /\ disk \in disks
  /\ procs = [q \in Procs |-> IdleProc]
  /\ nextId = InitIds + 1
  /\ clock = 0
  /\ up = TRUE
  /\ calls = 0
  /\ seen = [r \in Ids |-> IF disk.state = "ok" THEN StatusIn(disk.snap, r) ELSE "none"]
  /\ created = {}
  /\ deleted = {}
  /\ runJob = [r \in Ids |-> IF disk.state = "ok" /\ r \in IdsOf(disk.snap.runs)
                           THEN disk.snap.runs[FindIndex(disk.snap.runs, r)].jobId ELSE NoId]
  /\ orphaned = {}

\* no staged pipeline has been entered
InitWith(disks) == InitStore(disks) /\ pipe = NoFrame /\ calc = NoCalc

Init == InitWith({AbsentDisk, OkDisk(FileLegacy), OkDisk(FileLegacyRun), OkDisk(FileCurrent)})

InitSeq ==
  InitWith({AbsentDisk, OkDisk(FileLegacy), OkDisk(FileLegacyRun), OkDisk(FileLegacySameUrl),
            OkDisk(FileCurrent), OkDisk(FileTwoJobs)})

Step(p, c) ==
  \/ ComparisonJobService_createJob(p, c)
  \/ ComparisonJobService_updateJob(p, c)
  \/ ComparisonJobService_deleteJob(p, c)
  \/ ComparisonJobService_migrateLegacyJobs(p, c)
  \/ JobService_createJob(p, c)
  \/ JobService_deleteJob(p, c)
  \/ RunService_triggerComparisonRun(p, c)
  \/ FileStorage_save_begin(p)
  \/ FileStorage_load_saved(p)
  \/ FileStorage_save_end(p)
  \/ Reply(p)
  \/ executePlaywrightRun_load(p, c)
  \/ executePlaywrightRun_capture(p, c)

\* request tasks and run executions interleave at their awaits
Next == \E p \in Procs : Step(p, [urls |-> ConcUrls, calls |-> MaxCalls, clock |-> 0])

Spec == Init /\ [][Next]_vars

\* one call at a time, each run execution finished before the next call
NextSeq == \E p \in SeqProcs : Step(p, [urls |-> Urls, calls |-> MaxSeqCalls, clock |-> 0])

SpecSeq == InitSeq /\ [][NextSeq]_vars

\* the run lifecycle with the wall clock followed
StepRuns(p, c) ==
  \/ RunService_triggerComparisonRun(p, c)
  \/ ComparisonJobService_deleteJob(p, c)
  \/ FileStorage_save_begin(p)
  \/ FileStorage_save_end(p)
  \/ Reply(p)
  \/ executePlaywrightRun_load(p, c)
  \/ executePlaywrightRun_capture(p, c)

NextRuns ==
  \E p \in Procs : StepRuns(p, [urls |-> ConcUrls, calls |-> MaxCalls, clock |-> MaxClock])

InitRuns == InitWith({OkDisk(FileLegacyRun), OkDisk(FileCurrent)})

SpecRuns == InitRuns /\ [][NextRuns]_vars

\* triggerComparisonRun calls and the run executions they start, nothing else
StepTrigger(p, c) ==
  \/ RunService_triggerComparisonRun(p, c)
  \/ FileStorage_save_begin(p)
  \/ FileStorage_save_end(p)
  \/ Reply(p)
  \/ executePlaywrightRun_load(p, c)
  \/ executePlaywrightRun_capture(p, c)

NextTrigger ==
  \E p \in Procs : StepTrigger(p, [urls |-> ConcUrls, calls |-> MaxCalls, clock |-> 0])

SpecTrigger == InitRuns /\ [][NextTrigger]_vars

\* creation and migration of jobs, one call at a time, with the wall clock
\* followed; a URL of the input may be missing or empty
JobUrls == {Undef, "", "http://a", "http://b"}

StepJobs(p, c) ==
  \/ ComparisonJobService_createJob(p, c)
  \/ ComparisonJobService_migrateLegacyJobs(p, c)
  \/ JobService_createJob(p, c)
  \/ FileStorage_save_begin(p)
  \/ FileStorage_load_saved(p)
  \/ FileStorage_save_end(p)
  \/ Reply(p)

NextJobs ==
  \E p \in SeqProcs :
    StepJobs(p, [urls |-> JobUrls, calls |-> MaxSeqCalls, clock |-> MaxClock])

\* a current snapshot in which the deprecated JobService has created a job
FileMixed ==
  legacyCreateJobNext(FileCurrent, [sourceUrl |-> "http://b", targetUrl |-> "http://a"], 2, 0)

InitJobs ==
  InitWith({AbsentDisk, OkDisk(FileLegacy), OkDisk(FileLegacyRun), OkDisk(FileLegacySameUrl),
            OkDisk(FileCurrent), OkDisk(FileTwoJobs), OkDisk(FileMixed)})

SpecJobs == InitJobs /\ [][NextJobs]_vars

\* the process may be killed and started again
NextCrash == Next \/ Crash \/ buildServer

SpecCrash == Init /\ [][NextCrash]_vars

\* The staged pipeline on its own: simulateComparisonRunExecution(3, job) is
\* entered for a queued run of job 1, or for a run that is no longer stored.
Matrices ==
  {[visual |-> v, functional |-> f, data |-> d, seo |-> TRUE] : v, f, d \in BOOLEAN}

PipelineJob(matrix, pageMap) ==
  [FileCurrent.comparisonJobs[1] EXCEPT !.testMatrix = matrix, !.pageMap = pageMap]

PipelineFile(job, runs) ==
  [FileCurrent EXCEPT !.comparisonJobs = <<job>>, !.runs = runs]

InitPipeline ==
  \E matrix \in Matrices, pageMap \in {<< >>, <<"given">>},
     runs \in {<< >>, <<queuedRun(3, 1, 0)>>} :
    /\ InitStore({OkDisk(PipelineFile(PipelineJob(matrix, pageMap), runs))})
    /\ pipe = [NoFrame EXCEPT !.pc = "begin", !.runId = 3,
                              !.job = PipelineJob(matrix, pageMap)]
    /\ calc = NoCalc

StepPipeline(c) ==
  \/ simulateComparisonRunExecution_begin(c)
  \/ Stage_Crawl
  \/ Stage_Capture
  \/ Stage_Functional
  \/ Stage_Data
  \/ closeContexts
  \/ Stage_Visual
  \/ Stage_Reasoning
  \/ Stage_Report
  \/ simulateComparisonRunExecution_catch(c)
  \/ simulateComparisonRunExecution_complete(c)

NextPipeline == StepPipeline([clock |-> MaxClock])

SpecPipeline == InitPipeline /\ [][NextPipeline]_vars

\* The report agent on its own: generateReport on an AIReasoningResult with
\* any analyses for the four categories, and generateExecutiveSummary on any
\* RiskScore.
InitAgents == InitStore({AbsentDisk}) /\ pipe = NoFrame

\* the analyses of the categories a choice gives a severity to, in the order
\* of Categories
AnalysesOf(choice) ==
  LET present == SelectSeq(Categories, LAMBDA c : choice[c] # "absent")
  IN [i \in DOMAIN present |-> [category |-> present[i], severity |-> choice[present[i]]]]

CategorySet == {Categories[i] : i \in DOMAIN Categories}

AiResults ==
  {[categoryAnalyses |-> AnalysesOf(choice), overallSeverity |-> sev, overallPass |-> pass] :
     choice \in [CategorySet -> SeveritySet \cup {"absent"}],
     sev \in {"none", "high"}, pass \in BOOLEAN}

RiskScores == 0..100

InitReport ==
  /\ InitAgents
  /\ \/ \E aiResult \in AiResults, criticalIssues \in 0..MaxCritical :
          calc = [fn |-> "generateReport", pc |-> "call", aiResult |-> aiResult,
                  criticalIssues |-> criticalIssues,
                  riskScore |-> [overall |-> 0, visual |-> 0, functional |-> 0,
                                 data |-> 0, seo |-> 0],
                  goNoGo |-> "none"]
     \/ \E overall \in RiskScores, pass \in BOOLEAN, criticalIssues \in 0..MaxCritical :
          calc = [fn |-> "generateExecutiveSummary", pc |-> "call",
                  aiResult |-> [categoryAnalyses |-> << >>, overallSeverity |-> "none",
                                overallPass |-> pass],
                  criticalIssues |-> criticalIssues,
                  riskScore |-> [overall |-> overall, visual |-> 0, functional |-> 0,
                                 data |-> 0, seo |-> 0],
                  goNoGo |-> "none"]

NextReport == ReportAgent_generateReport \/ ReportAgent_generateExecutiveSummary

SpecReport == InitReport /\ [][NextReport]_vars

\* matchPages on its own: two crawl results of up to MaxSitePages pages with
\* distinct urls, as crawlSite's visited set leaves them, and a pageMap of up
\* to MaxMappings entries.
Paths == {<<"a">>, <<"b">>, <<"b", "a">>}
BaselineTitles == {"", "Home"}
CandidateTitles == {"", "home ", "About"}

SeqsUpTo(S, n) == UNION {[1..k -> S] : k \in 0..n}

DistinctUrls(pages) ==
  \A i, j \in DOMAIN pages : pages[i].url = pages[j].url => i = j

CrawlResults(origin, titles) ==
  {pages \in SeqsUpTo({CrawledPage(origin, path, title) : path \in Paths, title \in titles},
                      MaxSitePages) : DistinctUrls(pages)}

PageMaps == SeqsUpTo([baselinePath : Paths, candidatePath : Paths], MaxMappings)

InitMatch ==
  /\ InitAgents
  /\ \E baseline \in CrawlResults("baseline", BaselineTitles),
        candidate \in CrawlResults("candidate", CandidateTitles), pageMap \in PageMaps :
       calc = [fn |-> "matchPages", pc |-> "call", baseline |-> baseline,
               candidate |-> candidate, pageMap |-> pageMap, matches |-> << >>]

NextMatch == CrawlAgent_matchPages

SpecMatch == InitMatch /\ [][NextMatch]_vars

\* The two capture routines on their own, for 1..MaxSitePages matched pages.
InitCapture ==
  /\ InitAgents
  /\ \/ \E pages \in 1..MaxSitePages :
          calc = [fn |-> "executeComparison", pages |-> pages,
                  pos |-> [site \in {"baseline", "candidate"} |-> 0],
                  busy |-> [site \in {"baseline", "candidate"} |-> FALSE], log |-> << >>]
     \/ calc = [fn |-> "runTwoSiteCapture", site |-> 1, capturing |-> FALSE, log |-> << >>]

NextCapture ==
  \/ \E site \in {"baseline", "candidate"} : executeSite_executePage(site)
  \/ \E site \in {"baseline", "candidate"} : executeSite_pageSettled(site)
  \/ captureSite_begin
  \/ captureSite_settled

SpecCapture == InitCapture /\ [][NextCapture]_vars

\* ------------------------------------------------------------- properties
Snap == disk.snap
Persisted == disk.state = "ok"
Quiescent == \A p \in Procs : procs[p].pc = "idle"
Terminal == {"completed", "failed"}
RangeOf(seq) == {seq[i] : i \in DOMAIN seq}
RunsOfJob(s, id) == {r \in RangeOf(s.runs) : r.jobId = id}
ExecFinishes(p) ==
  /\ procs[p].op = "executePlaywrightRun_end"
  /\ procs[p].pc = "writing"
  /\ procs'[p].pc = "idle"

\* C1: in the successive persisted snapshots the status of a run only moves
\* forward along queued -> running -> completed|failed: it is never persisted
\* behind the furthest status already persisted for it, and a terminal status
\* never changes.
C1_StatusOnlyMovesForward ==
  Persisted => \A r \in Ids : StatusIn(Snap, r) \in {"none", seen[r]}

\* C2: no successful update is lost: once every call has finished, each job a
\* createJob call returned and no deleteJob call deleted is in the persisted
\* snapshot.
C2_NoLostUpdate ==
  (Quiescent /\ Persisted) => \A id \in created \ deleted : id \in IdsOf(Snap.comparisonJobs)

\* deleteJob call q loaded the snapshot when the run that p executes was
\* persisted as running, deleted the job of that run and has saved
DeletedWhileExecuting(p, q) ==
  /\ procs[q].op = "deleteJob" /\ procs[q].pc = "reply" /\ procs[q].res = "ok"
  /\ StatusIn(procs[q].snap, procs[p].id) = "running"
  /\ procs[q].snap.runs[FindIndex(procs[q].snap.runs, procs[p].id)].jobId = procs[q].id

\* C3: when deleteJob(id) succeeded while a run of job id was executing, the
\* snapshot written when that run execution finishes holds neither the job, nor
\* a run of it, nor an artifact of such a run.
C3_DeletedJobStaysDeleted ==
  [][\A p, q \in Procs :
       (ExecFinishes(p) /\ disk'.state = "ok" /\ DeletedWhileExecuting(p, q)) =>
         LET id == procs[q].id IN
         /\ id \notin IdsOf(disk'.snap.comparisonJobs)
         /\ RunsOfJob(disk'.snap, id) = {}
         /\ \A a \in RangeOf(disk'.snap.artifacts) : a.runId # procs[p].id]_vars

\* C4: every run triggerComparisonRun returned ends terminal: once all calls and
\* run executions have finished, each such run whose execution got its snapshot
\* from storage (the run has been persisted as running) and whose job is still
\* in the snapshot is persisted as completed or failed.
C4_EveryRunEndsTerminal ==
  (Quiescent /\ Persisted) =>
    \A r \in Ids :
      ( /\ runJob[r] # NoId
        /\ seen[r] \in {"running"} \cup Terminal
        /\ runJob[r] \in IdsOf(Snap.comparisonJobs) \cup IdsOf(Snap.jobs) )
        => StatusIn(Snap, r) \in Terminal

\* C5: a save is atomic under crashes: when the process is killed the file is
\* a complete snapshot (or was never written).
C5_SaveAtomicUnderCrash ==
  ~up => disk.state # "torn"

\* C6: a run that was persisted as running when the process stopped is, once
\* the server is up again, persisted as failed with completedAt set and an
\* "aborted-on-restart" log artifact.
C6_RestartFailsRunningRuns ==
  (up /\ Persisted) =>
    \A r \in orphaned \cap IdsOf(Snap.runs) :
      /\ StatusIn(Snap, r) = "failed"
      /\ Snap.runs[FindIndex(Snap.runs, r)].completedAt # Absent
      /\ \E a \in RangeOf(Snap.artifacts) :
           a.runId = r /\ a.type = "log" /\ a.label = "aborted-on-restart"

\* C7: referential integrity: in every persisted snapshot each run's jobId is
\* the id of a ComparisonJob or of a legacy job of the snapshot, and each
\* artifact's runId is the id of a run of the snapshot.
C7_ReferentialIntegrity ==
  Persisted =>
    /\ \A r \in RangeOf(Snap.runs) :
         r.jobId \in IdsOf(Snap.comparisonJobs) \cup IdsOf(Snap.jobs)
    /\ \A a \in RangeOf(Snap.artifacts) : a.runId \in IdsOf(Snap.runs)

\* a job was deleted while its run executed, the execution has written its
\* terminal snapshot, and that snapshot holds runs with their artifacts
C7_Witness ==
  /\ Persisted /\ deleted # {}
  /\ \E r \in RangeOf(Snap.runs) :
       /\ runJob[r.id] \in deleted /\ r.status \in Terminal
       /\ \E a \in RangeOf(Snap.artifacts) : a.runId = r.id /\ a.type = "screenshot"

\* the elements of seq that pass Test, in order, are exactly post
IsFiltered(post, seq, Test(_)) ==
  /\ RangeOf(post) = {x \in RangeOf(seq) : Test(x)}
  /\ Len(post) = Cardinality({i \in DOMAIN seq : Test(seq[i])})
  /\ \A i, j \in DOMAIN post : i < j =>
       \E k, l \in DOMAIN seq : k < l /\ seq[k] = post[i] /\ seq[l] = post[j]

\* C8: with no other call in flight, a deleteJob(id) that returned true has
\* saved the snapshot it loaded without the job id, without the runs of job id
\* and without the artifacts of those runs, everything else unchanged; a
\* deleteJob of an unknown id returned false and the stored snapshot still
\* loads as the one it loaded.
C8_DeleteJobEffect ==
  \A p \in Procs :
    (procs[p].pc = "reply" /\ procs[p].op = "deleteJob" /\ procs[p].res # "io_error") =>
      LET pre == procs[p].snap
          id == procs[p].id
          goneRuns == {r.id : r \in RunsOfJob(pre, id)}
          keepJob(j) == j.id # id
          keepRun(r) == r.jobId # id
          keepArtifact(a) == a.runId \notin goneRuns
      IN /\ Persisted
         /\ (procs[p].res = "ok") = (id \in IdsOf(pre.comparisonJobs))
         /\ procs[p].res \in {"ok", "false"}
         /\ procs[p].res = "false" => load(Snap, clock) = pre
         /\ procs[p].res = "ok" =>
              /\ id \notin IdsOf(Snap.comparisonJobs)
              /\ RunsOfJob(Snap, id) = {}
              /\ \A a \in RangeOf(Snap.artifacts) : a.runId \notin goneRuns
              /\ IsFiltered(Snap.comparisonJobs, pre.comparisonJobs, keepJob)
              /\ IsFiltered(Snap.runs, pre.runs, keepRun)
              /\ IsFiltered(Snap.artifacts, pre.artifacts, keepArtifact)
              /\ Snap.jobs = pre.jobs /\ Snap.version = pre.version
              /\ Snap.metadata = pre.metadata

\* a deleteJob returned true for a job that had a run with an artifact, while
\* another job with a run of its own stayed
C8_Witness ==
  \E p \in Procs :
    /\ procs[p].pc = "reply" /\ procs[p].op = "deleteJob" /\ procs[p].res = "ok"
    /\ \E r \in RunsOfJob(procs[p].snap, procs[p].id) :
         \E a \in RangeOf(procs[p].snap.artifacts) : a.runId = r.id
    /\ Persisted /\ Snap.comparisonJobs # << >>
    /\ Snap.runs # << >> /\ Snap.artifacts # << >>

\* C9: every ComparisonJob of every persisted snapshot has a non-empty
\* baselineUrl and candidateUrl, both absolute URLs and different.
C9_JobUrlsValid ==
  Persisted =>
    \A j \in RangeOf(Snap.comparisonJobs) :
      /\ Truthy(j.baselineUrl) /\ Truthy(j.candidateUrl)
      /\ IsAbsoluteUrl(j.baselineUrl) /\ IsAbsoluteUrl(j.candidateUrl)
      /\ j.baselineUrl # j.candidateUrl

\* C10: every run of every persisted snapshot is queued or running with no
\* completedAt, or completed or failed with a completedAt not before
\* triggeredAt.
C10_RunCompletedAt ==
  Persisted =>
    \A r \in RangeOf(Snap.runs) :
      \/ r.status \in {"queued", "running"} /\ r.completedAt = Absent
      \/ /\ r.status \in Terminal
         /\ r.completedAt # Absent
         /\ r.completedAt[1] >= r.triggeredAt

\* a run triggered late that completed later still, next to a failed one
C10_Witness ==
  /\ Persisted
  /\ \E r \in RangeOf(Snap.runs) :
       r.status = "completed" /\ r.triggeredAt > 0 /\ r.completedAt = Some(r.triggeredAt)
  /\ \E r \in RangeOf(Snap.runs) :
       r.status = "failed" /\ runJob[r.id] # NoId /\ r.completedAt[1] > r.triggeredAt

\* the jobId a triggerComparisonRun call in slot pr was given
TriggerArg(pr) == IF pr.res = "ok" THEN pr.next.runs[1].jobId ELSE pr.id
JobIdsOf(s) == IdsOf(s.comparisonJobs) \cup IdsOf(s.jobs)

\* C11: with one call at a time, triggerComparisonRun(jobId) for a job of the
\* loaded snapshot goes on to save and returns, with the execution not yet
\* begun, a new run with status queued and that jobId which the persisted
\* snapshot holds in front of the runs it had; for a jobId of no job it rejects
\* with 'not found' and the stored snapshot still loads as before.
C11_TriggerReturnsQueuedRun ==
  [][\A p \in Procs :
       LET me == procs[p]
           after == procs'[p]
       IN /\ (me.pc = "idle" /\ after.op = "triggerComparisonRun" /\ disk.state = "ok") =>
               IF TriggerArg(after) \in JobIdsOf(after.snap)
               THEN after.res = "ok" /\ after.pc = "save"
               ELSE after.res = "not_found" /\ after.pc = "reply"
          /\ (me.op = "triggerComparisonRun" /\ me.pc = "writing") =>
               /\ after.pc = "execload" /\ after.op = "executePlaywrightRun"
               /\ disk'.state = "ok"
               /\ Len(disk'.snap.runs) = Len(me.snap.runs) + 1
               /\ LET run == disk'.snap.runs[1] IN
                  /\ run.id = after.id /\ run.id \notin IdsOf(me.snap.runs)
                  /\ run.status = "queued" /\ run.completedAt = Absent
                  /\ run.jobId \in JobIdsOf(me.snap)
               /\ Tail(disk'.snap.runs) = me.snap.runs
               /\ [disk'.snap EXCEPT !.runs = me.snap.runs] = me.snap
          /\ (me.op = "triggerComparisonRun" /\ me.pc = "reply" /\ me.res = "not_found") =>
               Persisted /\ load(Snap, clock) = me.snap]_vars

\* C12: with one call at a time, createJob with a missing baselineUrl or
\* candidateUrl or with equal URLs is rejected as invalid and the stored
\* snapshot still loads as before; any other createJob appends to the snapshot
\* it loaded exactly one job, with an id no job or run had, the URLs given,
\* status pending and createdAt = updatedAt, and changes nothing else.
C12_CreateJobEffect ==
  \A p \in Procs :
    (procs[p].pc = "reply" /\ procs[p].op = "createJob") =>
      LET pre == procs[p].snap
          input == procs[p].input
          n == Len(pre.comparisonJobs)
      IN /\ Persisted
         /\ IF \/ input.baselineUrl \in {Undef, ""} \/ input.candidateUrl \in {Undef, ""}
               \/ input.baselineUrl = input.candidateUrl
            THEN procs[p].res = "invalid" /\ load(Snap, clock) = pre
            ELSE /\ procs[p].res = "ok"
                 /\ Len(Snap.comparisonJobs) = n + 1
                 /\ SubSeq(Snap.comparisonJobs, 1, n) = pre.comparisonJobs
                 /\ LET job == Snap.comparisonJobs[n + 1] IN
                    /\ job.id = procs[p].id
                    /\ job.id \notin JobIdsOf(pre) \cup IdsOf(pre.runs)
                    /\ job.baselineUrl = input.baselineUrl
                    /\ job.candidateUrl = input.candidateUrl
                    /\ job.status = "pending"
                    /\ job.createdAt = job.updatedAt
                 /\ [Snap EXCEPT !.comparisonJobs = pre.comparisonJobs] = pre

\* a createJob stamped after the clock moved returned, for a snapshot that
\* already held jobs, runs and artifacts
C12_Witness ==
  \E p \in Procs :
    /\ procs[p].pc = "reply" /\ procs[p].op = "createJob" /\ procs[p].res = "ok"
    /\ Len(procs[p].snap.comparisonJobs) > 1
    /\ procs[p].snap.runs # << >> /\ procs[p].snap.artifacts # << >>
    /\ Snap.comparisonJobs[Len(Snap.comparisonJobs)].createdAt > 0

\* the runs of a job that are persisted as running while their execution is
\* in its capture
RunningRunsOf(job) ==
  {r \in RunsOfJob(Snap, job) :
     /\ r.status = "running"
     /\ \E p \in Procs : procs[p].pc = "capture" /\ procs[p].id = r.id}

\* C13: at most one run of a job is running at any time: the persisted
\* snapshot never shows two runs of one job as running whose executions are
\* both under way.
C13_OneRunningRunPerJob ==
  Persisted => \A job \in Ids : Cardinality(RunningRunsOf(job)) <= 1

\* ------------------------------------------------------------- staged pipeline properties
DiffStages == {"Visual", "Functional", "Data"}

StageStarted(stage) == \E i \in DOMAIN pipe.trace : pipe.trace[i] = <<"start", stage>>
StageEnded(stage) == \E i \in DOMAIN pipe.trace : pipe.trace[i] = <<"end", stage>>

\* simulateComparisonRunExecution has returned after saving the run terminal
PipelineTerminal ==
  /\ pipe.pc = "returned"
  /\ disk.state = "ok"
  /\ StatusIn(disk.snap, pipe.runId) \in Terminal

\* C14: when a diff stage (visual, functional or data) of the staged pipeline
\* throws, the run is not failed by it: Reasoning and Report still start, and
\* the run is not persisted failed without them having run.
C14_DiffStageFailureNonFatal ==
  (pipe.thrown \in DiffStages /\ pipe.pc = "returned") =>
    /\ StageStarted("Reasoning")
    /\ StageStarted("Report")
    /\ StatusIn(disk.snap, pipe.runId) # "failed"

\* C15: whenever the run of the staged pipeline is persisted completed or
\* failed, the baseline and the candidate browser context Capture opened for
\* it are closed, also when a later stage threw after Capture succeeded.
C15_ContextsClosedAtTerminal ==
  (PipelineTerminal /\ StageEnded("Capture")) => pipe.contexts = {}

\* ------------------------------------------------------------- capture failure
\* the artifacts a snapshot registers for a run
ArtifactsOfRun(s, runId) == SelectSeq(s.artifacts, LAMBDA a : a.runId = runId)

BaselineArtifacts(runId) ==
  SelectSeq(captureArtifacts(runId), LAMBDA a : a.path.site = "baseline")

\* the execution of p is saving the outcome of a capture that failed on the
\* candidate site after the baseline site was captured
CandidateCaptureFailed(p) ==
  /\ procs[p].op = "executePlaywrightRun_end"
  /\ procs[p].pc \in {"save", "writing"}
  /\ procs[p].res = "candidate"

\* C16: when the capture of a triggered run fails on the candidate site after
\* the baseline site was captured, the run is saved failed and the artifacts
\* registered for it are the baseline artifacts followed by one log artifact
\* labeled "Capture Error".
C16_CaptureFailureKeepsPartials ==
  \A p \in Procs : CandidateCaptureFailed(p) =>
    LET runId == procs[p].id
        arts == ArtifactsOfRun(procs[p].next, runId)
        n == Len(BaselineArtifacts(runId))
    IN /\ StatusIn(procs[p].next, runId) = "failed"
       /\ Len(arts) = n + 1
       /\ SubSeq(arts, 1, n) = BaselineArtifacts(runId)
       /\ arts[n + 1].type = "log"
       /\ arts[n + 1].label = "Capture Error"

\* ------------------------------------------------------------- artifact registry
\* the path begins with data/artifacts/{runId}/
UnderRunDir(a) == a.path.root = "data" /\ a.path.runId = a.runId

\* the file the entry names has been written
Backed(a) == DataFile(a.path.runId, a.path.name) \in pipe.files

\* C17: every RunArtifact of a persisted snapshot has a path that begins with
\* data/artifacts/{its runId}/ and a backing file that was written before the
\* entry was saved, the error-log artifact of a failed run included.
C17_ArtifactsBackedByFiles ==
  disk.state = "ok" =>
    \A i \in DOMAIN disk.snap.artifacts :
      UnderRunDir(disk.snap.artifacts[i]) /\ Backed(disk.snap.artifacts[i])

\* ------------------------------------------------------------- stage order
\* the position of an event in the trace of the pipeline, 0 when it is absent
Pos(ev) ==
  IF \E i \in DOMAIN pipe.trace : pipe.trace[i] = ev
  THEN CHOOSE i \in DOMAIN pipe.trace : pipe.trace[i] = ev
  ELSE 0

\* stage started only after pre had finished
StartedAfter(stage, pre) ==
  StageStarted(stage) =>
    (StageEnded(pre) /\ Pos(<<"end", pre>>) < Pos(<<"start", stage>>))

MatrixEnables(stage) ==
  \/ stage = "Visual" /\ pipe.job.testMatrix.visual
  \/ stage = "Functional" /\ pipe.job.testMatrix.functional
  \/ stage = "Data" /\ pipe.job.testMatrix.data

\* no stage starts twice
StartsOnce ==
  \A i, j \in DOMAIN pipe.trace :
    (pipe.trace[i] = pipe.trace[j] /\ pipe.trace[i][1] = "start") => i = j

LoadReturned(p) ==
  procs[p].pc = "reply" /\ procs[p].res # "io_error" /\ Persisted

\* C19: FileStorage.load of a stored snapshot without the current version
\* persists the migrated snapshot before it returns, so that after a call
\* that loaded the stored file has the current version, and a second load
\* with no save in between returns the identical snapshot, whenever it is made
\* (same comparisonJobs, same metadata.lastMigration).
C19_LoadPersistsMigration ==
  \A p \in Procs : LoadReturned(p) =>
    /\ Snap.version = CURRENT_VERSION
    /\ procs[p].next = procs[p].snap =>
         \A now \in clock..MaxClock : load(Snap, now) = procs[p].snap

\* ------------------------------------------------------------- legacy migration
\* new is the ComparisonJob migrateLegacyJobs makes of the legacy job old
ConvertedFrom(new, old) ==
  /\ new.id = old.id
  /\ new.baselineUrl = old.sourceUrl
  /\ new.candidateUrl = old.targetUrl
  /\ new.crawlConfig = defaultCrawlConfig
  /\ new.testMatrix = defaultTestMatrix
  /\ new.migratedFrom = old.id

IntendedRisk(severity) == riskMap[severity]

ReportDone == calc.fn = "generateReport" /\ calc.pc = "done"

PresentCategories == {calc.aiResult.categoryAnalyses[i].category :
                        i \in DOMAIN calc.aiResult.categoryAnalyses}

SeverityOfCategory(c) ==
  LET a == calc.aiResult.categoryAnalyses
  IN a[CHOOSE i \in DOMAIN a : a[i].category = c].severity

RECURSIVE SumOver(_, _)
SumOver(S, f) ==
  IF S = {} THEN 0 ELSE LET x == CHOOSE y \in S : TRUE IN f[x] + SumOver(S \ {x}, f)

\* C21: the risk score maps the severity of each present category
\* none/low/medium/high/critical to 0/25/50/75/100, the overall score is the
\* (rounded) mean over the categories present, and when every category has
\* severity none, the reasoner passes and there is no critical issue, the
\* overall risk is 0 and the decision is go.
C21_RiskScoreIsMeanOfSeverities ==
  (ReportDone /\ PresentCategories # {}) =>
    LET intended == [c \in PresentCategories |-> IntendedRisk(SeverityOfCategory(c))]
    IN /\ \A c \in PresentCategories : calc.riskScore[c] = intended[c]
       /\ calc.riskScore.overall =
            RoundDiv(SumOver(PresentCategories, intended), Cardinality(PresentCategories))
       /\ ((\A c \in PresentCategories : SeverityOfCategory(c) = "none")
           /\ calc.aiResult.overallPass /\ calc.criticalIssues = 0) =>
            (calc.riskScore.overall = 0 /\ calc.goNoGo = "go")

SummaryDone == calc.fn \in {"generateReport", "generateExecutiveSummary"} /\ calc.pc = "done"

\* C22: for every overall risk, overall pass flag and number of critical
\* issues the decision is no-go exactly when the overall risk is at least 75
\* or the reasoner's overall pass is false; otherwise it is go when the
\* overall risk is below 50 and there is no critical issue; otherwise it is
\* conditional.
C22_GoNoGoDecision ==
  SummaryDone =>
    LET overall == calc.riskScore.overall
        pass == calc.aiResult.overallPass
    IN /\ (calc.goNoGo = "no-go") = (overall >= 75 \/ ~pass)
       /\ (calc.goNoGo = "go") = (overall < 75 /\ pass /\ overall < 50 /\ calc.criticalIssues = 0)
       /\ calc.goNoGo \in {"go", "no-go", "conditional"}

\* a passing result with a low risk is held back by a critical issue
C22_Witness ==
  /\ calc.fn = "generateExecutiveSummary" /\ calc.pc = "done"
  /\ calc.riskScore.overall < 50 /\ calc.aiResult.overallPass /\ calc.criticalIssues > 0
  /\ calc.goNoGo = "conditional"

\* ------------------------------------------------------------- matching properties
MatchDone == calc.fn = "matchPages" /\ calc.pc = "done"

\* C23: in the list matchPages returns no baseline page and no candidate page
\* appears in two entries.
C23_EachPageMatchedOnce ==
  MatchDone =>
    \A i, j \in DOMAIN calc.matches :
      (\/ calc.matches[i].baseline.url = calc.matches[j].baseline.url
       \/ calc.matches[i].candidate.url = calc.matches[j].candidate.url) => i = j

Crawled(pages, path) == \E i \in DOMAIN pages : pages[i].normalizedPath = path

\* C24: for every pageMap entry (b, c) whose baseline path b and candidate
\* path c were both crawled, matchPages returns a match of confidence 1.0
\* that joins the baseline page of path b to the candidate page of path c,
\* and the baseline page of path b is in no match of a lower confidence.
C24_ExplicitEntriesDominate ==
  MatchDone =>
    \A k \in DOMAIN calc.pageMap :
      LET b == calc.pageMap[k].baselinePath
          c == calc.pageMap[k].candidatePath
      IN (Crawled(calc.baseline, b) /\ Crawled(calc.candidate, c)) =>
           /\ \E i \in DOMAIN calc.matches :
                /\ calc.matches[i].baseline.normalizedPath = b
                /\ calc.matches[i].candidate.normalizedPath = c
                /\ calc.matches[i].confidence = "1.0"
           /\ \A i \in DOMAIN calc.matches :
                calc.matches[i].baseline.normalizedPath = b =>
                  calc.matches[i].confidence = "1.0"

\* ------------------------------------------------------------- capture properties
Capturing == calc.fn \in {"executeComparison", "runTwoSiteCapture"}

\* C25: for every page of a run, the capture of the candidate side does not
\* start before the capture of the baseline side of that page has finished.
C25_BaselineBeforeCandidate ==
  Capturing =>
    \A i \in DOMAIN calc.log :
      (calc.log[i][1] = "start" /\ calc.log[i][2] = "candidate") =>
        \E j \in 1..(i - 1) :
          /\ calc.log[j][1] \in {"end", "failed"}
          /\ calc.log[j][2] = "baseline"
          /\ calc.log[j][3] = calc.log[i][3]

\* ------------------------------------------------------------- crawl failure
LaterStages == {"Capture", "Functional", "Data", "Visual", "Reasoning", "Report"}

\* C26: when the crawl of the staged pipeline cannot fetch a site, the run
\* ends failed with a log artifact and none of Capture, the diff stages,
\* Reasoning and Report is started.
C26_CrawlFailureIsFatal ==
  (pipe.unreachable # {} /\ pipe.pc \notin {"none", "begin", "Crawl"}) =>
    /\ \A stage \in LaterStages : ~StageStarted(stage)
    /\ pipe.pc = "returned" =>
         /\ StatusIn(disk.snap, pipe.runId) = "failed"
         /\ \E i \in DOMAIN disk.snap.artifacts : disk.snap.artifacts[i].type = "log"

\* ------------------------------------------------------------ crawlSite
\* A URL is its host and its pathname, the pathname a sequence of "/" and
\* segment names ("/a/" is <<"/", "a", "/">>); query and fragment are left
\* out, normalizeUrl and matchesPatterns never look at them.
Url(host, pathname) == [host |-> host, pathname |-> pathname]

baseUrl == Url("x", <<"/">>)

\* `${protocol}//${host}${pathname}` with one trailing slash removed
normalizeUrl(url) ==
  IF url.pathname[Len(url.pathname)] = "/"
  THEN Url(url.host, SubSeq(url.pathname, 1, Len(url.pathname) - 1))
  ELSE url

\* the pathname new URL() gives a normalized url back: "/" for the bare origin
pathnameOf(normalized) ==
  IF normalized.pathname = << >> THEN <<"/">> ELSE normalized.pathname

\* the pathname for a page of the base host, the whole url for any other
extractPath(normalized) ==
  IF normalized.host # baseUrl.host
  THEN <<normalized.host>> \o normalized.pathname
  ELSE pathnameOf(normalized)

\* new RegExp(pattern.replace(/\*/g, '.*')) matched at the start of s
RECURSIVE regexMatchesHere(_, _)
regexMatchesHere(pattern, s) ==
  IF pattern = << >> THEN TRUE
  ELSE IF Head(pattern) = "*"
       THEN \E k \in 0..Len(s) : regexMatchesHere(Tail(pattern), SubSeq(s, k + 1, Len(s)))
       ELSE /\ s # << >>
            /\ Head(s) = Head(pattern)
            /\ regexMatchesHere(Tail(pattern), Tail(s))

\* regex.test(urlPath): the expression is not anchored
regexTest(pattern, s) ==
  \E i \in 0..Len(s) : regexMatchesHere(pattern, SubSeq(s, i + 1, Len(s)))

anyPattern(patterns, s) == \E i \in DOMAIN patterns : regexTest(patterns[i], s)

matchesPatterns(url, includePaths, excludePaths) ==
  IF anyPattern(excludePaths, url.pathname) THEN FALSE
  ELSE IF includePaths # << >> THEN anyPattern(includePaths, url.pathname)
  ELSE TRUE

\* the links crawlPage keeps of a fetched page
keptLinks(links, config) ==
  SelectSeq(links, LAMBDA link : config.followExternalLinks \/ link.host = baseUrl.host)

\* the links of a page the loop pushes: those not visited when the page was
\* crawled, each at depth + 1
pushedLinks(links, visited, depth) ==
  LET fresh == SelectSeq(links, LAMBDA link : normalizeUrl(link) \notin visited)
  IN [i \in DOMAIN fresh |-> [url |-> fresh[i], depth |-> depth + 1]]

\* config.maxPages || 100: the page limit of a crawl
maxPagesOf(config) ==
  IF "maxPages" \in DOMAIN config /\ config.maxPages # 0 THEN config.maxPages ELSE 100

\* the sitemap urls are queued at depth 0, at most maxPages of them
crawlSite_readSitemap ==
  /\ calc.fn = "crawlSite"
  /\ calc.pc = "sitemap"
  /\ LET taken == SubSeq(calc.sitemapUrls, 1,
                         IF Len(calc.sitemapUrls) < maxPagesOf(calc.config)
                         THEN Len(calc.sitemapUrls) ELSE maxPagesOf(calc.config))
     IN calc' = [calc EXCEPT
                   !.pc = "loop",
                   !.toVisit = @ \o [i \in DOMAIN taken |-> [url |-> taken[i], depth |-> 0]]]
  /\ UNCHANGED Store

\* one turn of the while loop: shift, the visited test, crawlPage, the push of
\* the page and of its links.  The fetch answers or fails (an exception, or a
\* status of 400 and more), after the url was added to visited.
crawlSite_visit ==
  /\ calc.fn = "crawlSite"
  /\ calc.pc = "loop"
  /\ calc.toVisit # << >>
  /\ Len(calc.pages) < maxPagesOf(calc.config)
  /\ LET url == Head(calc.toVisit).url
         depth == Head(calc.toVisit).depth
         normalized == normalizeUrl(url)
         rest == [calc EXCEPT !.toVisit = Tail(@), !.iterations = @ + 1]
         skipped == \/ normalized \in calc.visited
                    \/ depth > calc.config.depth
                    \/ ~matchesPatterns(url, calc.config.includePaths,
                                        calc.config.excludePaths)
     IN IF skipped
        THEN calc' = rest
        ELSE \/ calc' = [rest EXCEPT !.visited = @ \cup {normalized}]
             \/ LET visited == calc.visited \cup {normalized}
                    links == keptLinks(calc.site[normalized], calc.config)
                    crawledPage == [url |-> normalized,
                                    normalizedPath |-> extractPath(normalized),
                                    links |-> links, depth |-> depth]
                IN calc' = [rest EXCEPT
                              !.visited = visited,
                              !.pages = Append(@, crawledPage),
                              !.toVisit = IF depth < calc.config.depth
                                          THEN @ \o pushedLinks(links, visited, depth)
                                          ELSE @]
  /\ UNCHANGED Store

\* the loop condition fails: the page is closed and the result returned
crawlSite_return ==
  /\ calc.fn = "crawlSite"
  /\ calc.pc = "loop"
  /\ calc.toVisit = << >> \/ Len(calc.pages) >= maxPagesOf(calc.config)
  /\ calc' = [calc EXCEPT !.pc = "done"]
  /\ UNCHANGED Store

\* crawlSite on its own: a site whose pages link to each other (cycles and
\* links to another host included), a sitemap, and a CrawlConfig the POST
\* /api/jobs schema accepts (depth >= 0, maxPages >= 1).
SiteUrls ==
  {Url("x", <<"/">>), Url("x", <<"/", "a">>), Url("x", <<"/", "a", "/">>),
   Url("x", <<"/", "a", "/", "b">>), Url("y", <<"/", "a">>)}

LinkLists ==
  {<< >>} \cup {<<u>> : u \in SiteUrls}
          \cup {<<u, v>> : u \in SiteUrls, v \in SiteUrls \ {Url("x", <<"/">>)}}

\* the links of the pages: any list for the seed page and for /a, a link back
\* to the seed for the others
SiteLinks ==
  {[n \in {normalizeUrl(u) : u \in SiteUrls} |->
      IF n = normalizeUrl(baseUrl) THEN seed
      ELSE IF n = Url("x", <<"/", "a">>) THEN inner
      ELSE <<baseUrl>>] :
     seed \in LinkLists, inner \in {<< >>, <<baseUrl>>, <<Url("x", <<"/", "a", "/", "b">>)>>}}

IncludePaths == {<< >>, <<<<"/", "a", "/", "*">>>>}
ExcludePaths == {<< >>, <<<<"/", "b">>>>}

CrawlConfigs ==
  [depth : 0..MaxDepth, maxPages : 1..MaxSitePages, followExternalLinks : BOOLEAN,
   includePaths : IncludePaths, excludePaths : ExcludePaths]

InitCrawl ==
  /\ InitAgents
  /\ \E site \in SiteLinks, config \in CrawlConfigs,
        sitemapUrls \in {<< >>, <<Url("x", <<"/", "a", "/", "b">>)>>,
                         <<Url("x", <<"/", "a", "/">>), Url("x", <<"/", "a">>)>>} :
       calc = [fn |-> "crawlSite", pc |-> "sitemap", site |-> site, config |-> config,
               sitemapUrls |-> sitemapUrls, visited |-> {},
               toVisit |-> <<[url |-> baseUrl, depth |-> 0]>>, pages |-> << >>,
               iterations |-> 0]

NextCrawl == crawlSite_readSitemap \/ crawlSite_visit \/ crawlSite_return

SpecCrawl == InitCrawl /\ [][NextCrawl]_vars

\* the visits crawlSite can make: the seed, every queued sitemap url, and every
\* link of a recorded page
VisitBound ==
  1 + Len(calc.sitemapUrls)
    + SumOver(DOMAIN calc.pages, [i \in DOMAIN calc.pages |-> Len(calc.pages[i].links)])

MaxPagesKept == Len(calc.pages) <= calc.config.maxPages
DepthKept == \A i \in DOMAIN calc.pages : calc.pages[i].depth <= calc.config.depth
UrlsDistinct ==
  \A i, j \in DOMAIN calc.pages : calc.pages[i].url = calc.pages[j].url => i = j
ExcludeKept ==
  \A i \in DOMAIN calc.pages :
    ~anyPattern(calc.config.excludePaths, calc.pages[i].normalizedPath)
IncludeKept ==
  \A i \in DOMAIN calc.pages :
    calc.config.includePaths # << >>
      => anyPattern(calc.config.includePaths, calc.pages[i].normalizedPath)

\* C27: crawlSite ends after a bounded number of visits, and its result holds
\* at most maxPages pages, none crawled at a depth above config.depth, no two
\* with the same normalized url, none whose path matches an exclude pattern
\* and, when there are include patterns, none whose path matches none of them.
C27_CrawlIsBounded ==
  calc.fn = "crawlSite" =>
    /\ calc.iterations <= VisitBound
    /\ MaxPagesKept
    /\ DepthKept
    /\ UrlsDistinct
    /\ ExcludeKept
    /\ IncludeKept

\* ------------------------------------------------------ data integrity
\* What a page serves, as the extract* functions read it: the words of its
\* visible text, its tables (headers and rows of cells), its pricing elements
\* and the parsed JSON-LD blocks.  A JSON value is a string or an object with
\* string members.
JsonString(value) == [type |-> "string", value |-> value]
JsonObject(members) == [type |-> "object", members |-> members]

\* one APIResponse per JSON-LD block, its url `${baseUrl}#json-ld-${index}`
extractAPIResponses(jsonLd, siteUrl) ==
  [i \in DOMAIN jsonLd |-> [url |-> <<siteUrl, "#json-ld", i - 1>>, data |-> jsonLd[i]]]

\* |A \cap B| / |A \cup B| over the words, compared with a threshold in tenths
similarityAbove(baselineWords, candidateWords, tenths) ==
  10 * Cardinality(baselineWords \cap candidateWords)
    > tenths * Cardinality(baselineWords \cup candidateWords)

\* the statuses of the field diffs of two tables at the same index
tableFieldDiffs(baselineTable, candidateTable) ==
  LET headers ==
        IF Len(baselineTable.headers) # Len(candidateTable.headers) THEN <<"mismatch">>
        ELSE SelectSeq([i \in DOMAIN baselineTable.headers |->
                          IF baselineTable.headers[i] # candidateTable.headers[i]
                          THEN "changed" ELSE "same"], LAMBDA s : s # "same")
      maxRows == MaxOf(Len(baselineTable.rows), Len(candidateTable.rows))
      rows ==
        SelectSeq([r \in 1..maxRows |->
                     IF r > Len(baselineTable.rows) THEN "missing_baseline"
                     ELSE IF r > Len(candidateTable.rows) THEN "missing_candidate"
                     ELSE IF baselineTable.rows[r] # candidateTable.rows[r] THEN "changed"
                     ELSE "same"], LAMBDA s : s # "same")
  IN headers \o rows

\* tables are paired by their position in the page
compareTables(baseline, candidate) ==
  LET n == MaxOf(Len(baseline), Len(candidate))
      all == [i \in 1..n |->
                IF i > Len(baseline) THEN <<"missing_baseline">>
                ELSE IF i > Len(candidate) THEN <<"missing_candidate">>
                ELSE tableFieldDiffs(baseline[i], candidate[i])]
  IN SelectSeq(all, LAMBDA fieldDiffs : fieldDiffs # << >>)

\* the keys of a Map built with forEach(set) from a list of keys (and of a Set
\* built from two such Maps), in iteration order: first occurrence first
RECURSIVE keysOf(_)
keysOf(keys) ==
  IF keys = << >> THEN << >>
  ELSE LET front == keysOf(SubSeq(keys, 1, Len(keys) - 1))
           k == keys[Len(keys)]
       IN IF \E i \in DOMAIN front : front[i] = k THEN front ELSE Append(front, k)

\* what Map.get gives for a key the Map does not hold
NotInMap == [undefined |-> TRUE]

\* Map.get after forEach(set): the last item with the key
getByKey(items, keys, k) ==
  IF \E i \in DOMAIN items : keys[i] = k
  THEN items[CHOOSE i \in DOMAIN items :
               keys[i] = k /\ \A j \in DOMAIN items : keys[j] = k => j <= i]
  ELSE NotInMap

pricingFieldDiffs(baselinePricing, candidatePricing) ==
  IF baselinePricing = NotInMap THEN <<"missing_baseline">>
  ELSE IF candidatePricing = NotInMap THEN <<"missing_candidate">>
  ELSE (IF baselinePricing.amount # candidatePricing.amount THEN <<"changed">> ELSE << >>)
       \o (IF baselinePricing.currency # candidatePricing.currency
           THEN <<"changed">> ELSE << >>)

\* pricing elements are paired by selector
comparePricing(baseline, candidate) ==
  LET selectors(items) == [i \in DOMAIN items |-> items[i].selector]
      allSelectors == keysOf(selectors(baseline) \o selectors(candidate))
      all == [i \in DOMAIN allSelectors |->
                pricingFieldDiffs(getByKey(baseline, selectors(baseline), allSelectors[i]),
                                  getByKey(candidate, selectors(candidate), allSelectors[i]))]
  IN SelectSeq(all, LAMBDA fieldDiffs : fieldDiffs # << >>)

\* the statuses compareJSONObjects pushes for two values
compareJSONObjects(baseline, candidate) ==
  IF baseline.type # candidate.type THEN <<"mismatch">>
  ELSE IF baseline.type = "string"
       THEN IF baseline.value # candidate.value THEN <<"changed">> ELSE << >>
       ELSE LET allKeys == DOMAIN baseline.members \cup DOMAIN candidate.members
                status(k) ==
                  IF k \notin DOMAIN baseline.members THEN "missing_baseline"
                  ELSE IF k \notin DOMAIN candidate.members THEN "missing_candidate"
                  ELSE IF baseline.members[k] # candidate.members[k] THEN "changed"
                  ELSE "same"
                RECURSIVE walk(_)
                walk(keys) ==
                  IF keys = {} THEN << >>
                  ELSE LET k == CHOOSE x \in keys : TRUE
                       IN (IF status(k) = "same" THEN << >> ELSE <<status(k)>>)
                          \o walk(keys \ {k})
            IN walk(allKeys)

jsonFieldDiffs(baselineResponse, candidateResponse) ==
  IF baselineResponse = NotInMap THEN <<"missing_baseline">>
  ELSE IF candidateResponse = NotInMap THEN <<"missing_candidate">>
  ELSE compareJSONObjects(baselineResponse.data, candidateResponse.data)

\* responses are paired by url
compareJSONResponses(baseline, candidate) ==
  LET urls(items) == [i \in DOMAIN items |-> items[i].url]
      allUrls == keysOf(urls(baseline) \o urls(candidate))
      all == [i \in DOMAIN allUrls |->
                jsonFieldDiffs(getByKey(baseline, urls(baseline), allUrls[i]),
                               getByKey(candidate, urls(candidate), allUrls[i]))]
  IN SelectSeq(all, LAMBDA fieldDiffs : fieldDiffs # << >>)

\* the number of field diffs of a list of diffs
RECURSIVE fieldDiffCount(_)
fieldDiffCount(diffs) ==
  IF diffs = << >> THEN 0 ELSE Len(Head(diffs)) + fieldDiffCount(Tail(diffs))

hasMissing(diffs) ==
  \E i \in DOMAIN diffs : \E j \in DOMAIN diffs[i] :
    diffs[i][j] \in {"missing_baseline", "missing_candidate"}

\* the result of one turn of the loop over matchedPages
pageDataResult(matchedPage, baselineUrl, candidateUrl) ==
  LET tableDiffs == compareTables(matchedPage.baseline.tables, matchedPage.candidate.tables)
      pricingDiffs == comparePricing(matchedPage.baseline.pricing,
                                     matchedPage.candidate.pricing)
      apiDiffs == compareJSONResponses(
                    extractAPIResponses(matchedPage.baseline.jsonLd, baselineUrl),
                    extractAPIResponses(matchedPage.candidate.jsonLd, candidateUrl))
      words(side) == {side.text[i] : i \in DOMAIN side.text}
      baselineWords == words(matchedPage.baseline)
      candidateWords == words(matchedPage.candidate)
  IN [tables |-> tableDiffs, pricing |-> pricingDiffs, apiResponses |-> apiDiffs,
      overallStatus |->
        IF /\ similarityAbove(baselineWords, candidateWords, 9)
           /\ tableDiffs = << >> /\ pricingDiffs = << >> /\ apiDiffs = << >>
        THEN "match"
        ELSE IF /\ similarityAbove(baselineWords, candidateWords, 5)
                /\ tableDiffs = << >> /\ pricingDiffs = << >>
        THEN "partial"
        ELSE "mismatch"]

dataSummary(pageResults) ==
  LET mismatches == SelectSeq(pageResults, LAMBDA p : p.overallStatus = "mismatch")
      missing == SelectSeq(pageResults, LAMBDA p :
                   hasMissing(p.tables) \/ hasMissing(p.pricing) \/ hasMissing(p.apiResponses))
  IN [totalPages |-> Len(pageResults),
      pagesWithMismatches |-> Len(mismatches),
      pagesWithMissingData |-> Len(missing),
      totalFieldDiffs |->
        SumOver(DOMAIN pageResults,
                [i \in DOMAIN pageResults |->
                   fieldDiffCount(pageResults[i].tables)
                   + fieldDiffCount(pageResults[i].pricing)
                   + fieldDiffCount(pageResults[i].apiResponses)]),
      criticalMismatches |-> Len(mismatches)]

\* one matched page: both sides are fetched and extracted, then compared
DataIntegrityAgent_comparePage ==
  /\ calc.fn = "executeDataIntegrityCheckWithContexts"
  /\ calc.pc = "pages"
  /\ Len(calc.pageResults) < Len(calc.matchedPages)
  /\ calc' = [calc EXCEPT
                !.pageResults =
                   Append(@, pageDataResult(calc.matchedPages[Len(calc.pageResults) + 1],
                                            calc.baselineUrl, calc.candidateUrl))]
  /\ UNCHANGED Store

\* a goto or an extraction throws: the page is closed and the call rejects
DataIntegrityAgent_pageThrows ==
  /\ calc.fn = "executeDataIntegrityCheckWithContexts"
  /\ calc.pc = "pages"
  /\ Len(calc.pageResults) < Len(calc.matchedPages)
  /\ calc' = [calc EXCEPT !.pc = "thrown"]
  /\ UNCHANGED Store

\* after the loop: the summary over the page results
DataIntegrityAgent_summarize ==
  /\ calc.fn = "executeDataIntegrityCheckWithContexts"
  /\ calc.pc = "pages"
  /\ Len(calc.pageResults) = Len(calc.matchedPages)
  /\ calc' = [calc EXCEPT !.pc = "done", !.summary = dataSummary(calc.pageResults)]
  /\ UNCHANGED Store

\* The data stage on its own: up to MaxSitePages matched pages, each side
\* serving one of a few contents, for a job whose two urls differ or are equal.
Content(text, tables, pricing, jsonLd) ==
  [text |-> text, tables |-> tables, pricing |-> pricing, jsonLd |-> jsonLd]

Table(cell) == [headers |-> <<"h">>, rows |-> <<<<cell>>>>]
Pricing(amount) == [selector |-> ".price", amount |-> amount, currency |-> "USD"]

Contents ==
  {Content(<<"w1">>, << >>, << >>, << >>),
   Content(<<"w1", "w2">>, << >>, << >>, << >>),
   Content(<<"w1">>, <<Table("c1")>>, << >>, << >>),
   Content(<<"w1">>, <<Table("c2")>>, << >>, << >>),
   Content(<<"w1">>, << >>, <<Pricing("9")>>, << >>),
   Content(<<"w1">>, << >>, <<Pricing("10")>>, << >>),
   Content(<<"w1">>, << >>, << >>, <<JsonObject([name |-> "n"])>>),
   Content(<<"w1">>, << >>, << >>, <<JsonString("n")>>)}

MatchedContents == [baseline : Contents, candidate : Contents]

InitData ==
  /\ InitAgents
  /\ \E matchedPages \in SeqsUpTo(MatchedContents, MaxSitePages),
        candidateUrl \in {"http://a", "http://b"} :
       calc = [fn |-> "executeDataIntegrityCheckWithContexts", pc |-> "pages",
               baselineUrl |-> "http://a", candidateUrl |-> candidateUrl,
               matchedPages |-> matchedPages, pageResults |-> << >>,
               summary |-> dataSummary(<< >>)]

NextData ==
  \/ DataIntegrityAgent_comparePage
  \/ DataIntegrityAgent_pageThrows
  \/ DataIntegrityAgent_summarize

SpecData == InitData /\ [][NextData]_vars

\* the field diffs a page result adds to summary.totalFieldDiffs
FieldDiffsOfPage(p) ==
  fieldDiffCount(p.tables) + fieldDiffCount(p.pricing) + fieldDiffCount(p.apiResponses)

\* C28: a matched page whose two sides serve the same text, tables, pricing
\* elements and JSON-LD blocks has the status match and adds no field diff and
\* no mismatch to the summary.
C28_DataStageReflexive ==
  calc.fn = "executeDataIntegrityCheckWithContexts" =>
    \A i \in DOMAIN calc.pageResults :
      calc.matchedPages[i].baseline = calc.matchedPages[i].candidate
        => /\ calc.pageResults[i].overallStatus = "match"
           /\ FieldDiffsOfPage(calc.pageResults[i]) = 0

\* ------------------------------------------------- rule-based analysis
\* A stage result is Undef when the stage did not run; otherwise only its
\* summary is read.  averageDiffPercentage is a whole number of percent.
summarizeArtifacts(visualDiffResult, functionalQaResult, dataIntegrityResult) ==
  [visual |-> IF visualDiffResult = NotInMap THEN NotInMap ELSE visualDiffResult,
   functional |->
     IF functionalQaResult = NotInMap THEN NotInMap
     ELSE [totalBrokenLinks |-> functionalQaResult.baseline.totalBrokenLinks
                                + functionalQaResult.candidate.totalBrokenLinks,
           totalJSErrors |-> functionalQaResult.baseline.totalJSErrors
                             + functionalQaResult.candidate.totalJSErrors],
   data |-> IF dataIntegrityResult = NotInMap THEN NotInMap ELSE dataIntegrityResult]

calculateSeverityFromVisual(result) ==
  IF result.criticalIssues > 0 THEN "critical"
  ELSE IF result.highIssues > 0 THEN "high"
  ELSE IF result.averageDiffPercentage > 5 THEN "medium"
  ELSE IF result.averageDiffPercentage > 1 THEN "low"
  ELSE "none"

calculateSeverityFromFunctional(result) ==
  LET totalIssues == result.baseline.totalBrokenLinks + result.baseline.totalJSErrors
  IN IF totalIssues > 20 THEN "critical"
     ELSE IF totalIssues > 10 THEN "high"
     ELSE IF totalIssues > 5 THEN "medium"
     ELSE IF totalIssues > 0 THEN "low"
     ELSE "none"

calculateSeverityFromData(result) ==
  IF result.criticalMismatches > 0 THEN "critical"
  ELSE IF result.totalFieldDiffs > 50 THEN "high"
  ELSE IF result.totalFieldDiffs > 20 THEN "medium"
  ELSE IF result.totalFieldDiffs > 0 THEN "low"
  ELSE "none"

severityToNumber(severity) == CHOOSE i \in DOMAIN Severities : Severities[i] = severity

\* the analyses in the order visual, functional, data, each for a stage result
\* that is present
generateFallbackAnalysis(visualDiffResult, functionalQaResult, dataIntegrityResult) ==
  LET analysis(category, severity) ==
        [category |-> category, severity |-> severity,
         pass |-> severity \in {"none", "low"}]
      categoryAnalyses ==
        (IF visualDiffResult = NotInMap THEN << >>
         ELSE <<analysis("visual", calculateSeverityFromVisual(visualDiffResult))>>)
        \o (IF functionalQaResult = NotInMap THEN << >>
            ELSE <<analysis("functional",
                            calculateSeverityFromFunctional(functionalQaResult))>>)
        \o (IF dataIntegrityResult = NotInMap THEN << >>
            ELSE <<analysis("data", calculateSeverityFromData(dataIntegrityResult))>>)
      worst == IF categoryAnalyses = << >> THEN 1
               ELSE CHOOSE n \in 1..Len(Severities) :
                      /\ \E i \in DOMAIN categoryAnalyses :
                           severityToNumber(categoryAnalyses[i].severity) = n
                      /\ \A i \in DOMAIN categoryAnalyses :
                           severityToNumber(categoryAnalyses[i].severity) <= n
  IN [overallSeverity |-> Severities[worst],
      overallPass |-> \A i \in DOMAIN categoryAnalyses :
                        categoryAnalyses[i].severity \notin {"high", "critical"},
      categoryAnalyses |-> categoryAnalyses]

\* the stage results parseAIResponse rebuilds from the summary for its fallback:
\* both sites get the summed functional summary
resultsOfSummary(summary) ==
  [visual |-> summary.visual,
   functional |-> IF summary.functional = NotInMap THEN NotInMap
                  ELSE [baseline |-> summary.functional, candidate |-> summary.functional],
   data |-> summary.data]

\* analyzeArtifacts up to its first await: without a configured client the
\* rule-based analysis is returned, with one the summary is sent to the model
AIReasoningService_analyzeArtifacts ==
  /\ calc.fn = "analyzeArtifacts"
  /\ calc.pc = "call"
  /\ IF ~calc.configured
     THEN calc' = [calc EXCEPT
                     !.pc = "done", !.ruleBased = TRUE,
                     !.result = generateFallbackAnalysis(calc.visual, calc.functional,
                                                         calc.data)]
     ELSE calc' = [calc EXCEPT
                     !.pc = "request",
                     !.artifactSummary = summarizeArtifacts(calc.visual, calc.functional,
                                                            calc.data)]
  /\ UNCHANGED Store

\* the request throws: the rule-based analysis of the stage results
AIReasoningService_requestFails ==
  /\ calc.fn = "analyzeArtifacts"
  /\ calc.pc = "request"
  /\ calc' = [calc EXCEPT
                !.pc = "done", !.ruleBased = TRUE,
                !.result = generateFallbackAnalysis(calc.visual, calc.functional, calc.data)]
  /\ UNCHANGED Store

\* the answer is parsed: the model's own verdict, or, when the answer is not
\* the expected JSON, the rule-based analysis of the summary
AIReasoningService_parseAIResponse ==
  /\ calc.fn = "analyzeArtifacts"
  /\ calc.pc = "request"
  /\ \/ \E severity \in {"none", "critical"} :
          calc' = [calc EXCEPT
                     !.pc = "done",
                     !.result = [overallSeverity |-> severity,
                                 overallPass |-> severity = "none",
                                 categoryAnalyses |-> << >>]]
     \/ LET results == resultsOfSummary(calc.artifactSummary)
        IN calc' = [calc EXCEPT
                      !.pc = "done", !.ruleBased = TRUE,
                      !.result = generateFallbackAnalysis(results.visual, results.functional,
                                                          results.data)]
  /\ UNCHANGED Store

\* The rule-based analysis on its own, for any summaries of the three stages.
VisualSummaries ==
  [criticalIssues : 0..1, highIssues : 0..1, averageDiffPercentage : {0, 2, 6}]

SiteFunctionalSummaries(top) == [totalBrokenLinks : 0..top, totalJSErrors : 0..1]

FunctionalResults ==
  [baseline : SiteFunctionalSummaries(MaxIssues), candidate : SiteFunctionalSummaries(1)]

DataSummaries == [criticalMismatches : 0..1, totalFieldDiffs : {0, 1, 21, 51}]

InitReasoning ==
  /\ InitAgents
  /\ \E visual \in VisualSummaries \cup {NotInMap},
        functional \in FunctionalResults \cup {NotInMap},
        data \in DataSummaries \cup {NotInMap}, configured \in BOOLEAN :
       calc = [fn |-> "analyzeArtifacts", pc |-> "call", configured |-> configured,
               ruleBased |-> FALSE, visual |-> visual,
               functional |-> functional, data |-> data,
               artifactSummary |-> summarizeArtifacts(NotInMap, NotInMap, NotInMap),
               result |-> generateFallbackAnalysis(NotInMap, NotInMap, NotInMap)]

NextReasoning ==
  \/ AIReasoningService_analyzeArtifacts
  \/ AIReasoningService_requestFails
  \/ AIReasoningService_parseAIResponse

SpecReasoning == InitReasoning /\ [][NextReasoning]_vars

\* the severity the functional total stands for
SeverityOfTotal(total) ==
  IF total >= 20 THEN "critical"
  ELSE IF total >= 10 THEN "high"
  ELSE IF total >= 5 THEN "medium"
  ELSE IF total >= 1 THEN "low"
  ELSE "none"

\* C29: in the rule-based analysis the severity of the functional category is
\* that of the functional total reported to the reasoner (broken links plus JS
\* errors of both sites): none at 0, low from 1, medium from 5, high from 10,
\* critical from 20.
C29_FunctionalSeverityOfTotal ==
  (calc.fn = "analyzeArtifacts" /\ calc.pc = "done" /\ calc.ruleBased
     /\ calc.functional # NotInMap) =>
    LET reported == summarizeArtifacts(calc.visual, calc.functional, calc.data).functional
    IN \A i \in DOMAIN calc.result.categoryAnalyses :
         calc.result.categoryAnalyses[i].category = "functional"
           => calc.result.categoryAnalyses[i].severity
                = SeverityOfTotal(reported.totalBrokenLinks + reported.totalJSErrors)

\* createJob on its own, one call at a time, with every way of supplying a
\* crawlConfig and a testMatrix: none, a whole one, or some members only.
CrawlConfigInputs ==
  {[depth |-> 2, maxPages |-> 5, followExternalLinks |-> TRUE],
   [depth |-> 2], [maxPages |-> 5]}

TestMatrixInputs ==
  {[visual |-> FALSE, functional |-> TRUE, data |-> TRUE, seo |-> FALSE],
   [visual |-> FALSE]}

CreateOptions ==
  {[none \in {} |-> none]}
    \cup {[crawlConfig |-> crawlConfig] : crawlConfig \in CrawlConfigInputs}
    \cup {[testMatrix |-> testMatrix] : testMatrix \in TestMatrixInputs}
    \cup {[crawlConfig |-> crawlConfig, testMatrix |-> testMatrix] :
            crawlConfig \in CrawlConfigInputs, testMatrix \in TestMatrixInputs}

StepCreate(p, c) ==
  \/ ComparisonJobService_createJob(p, c)
  \/ FileStorage_save_begin(p)
  \/ FileStorage_load_saved(p)
  \/ FileStorage_save_end(p)
  \/ Reply(p)

NextCreate ==
  \E p \in SeqProcs :
    StepCreate(p, [urls |-> ConcUrls, calls |-> MaxSeqCalls, clock |-> 0,
                   options |-> CreateOptions])

InitCreate == InitWith({AbsentDisk, OkDisk(FileCurrent)})

SpecCreate == InitCreate /\ [][NextCreate]_vars

\* the member of an object of the input, or the default when the caller gave
\* no such object or no such member
Supplied(input, object, member, default) ==
  IF object \in DOMAIN input /\ member \in DOMAIN input[object]
  THEN input[object][member] ELSE default

\* C30: the job createJob stores has a whole CrawlConfig and a whole
\* TestMatrix: every member the caller did not supply has its default (depth
\* 1, maxPages 10, followExternalLinks false; every matrix switch true), also
\* when only part of crawlConfig or testMatrix is supplied, and the page limit
\* of a crawl of that job is the stored maxPages.
C30_CreateJobFillsDefaults ==
  \A p \in Procs :
    (procs[p].pc = "reply" /\ procs[p].op = "createJob" /\ procs[p].res = "ok") =>
      LET input == procs[p].input
          job == Snap.comparisonJobs[Len(Snap.comparisonJobs)]
      IN /\ DOMAIN defaultCrawlConfig \subseteq DOMAIN job.crawlConfig
         /\ DOMAIN defaultTestMatrix \subseteq DOMAIN job.testMatrix
         /\ \A member \in DOMAIN defaultCrawlConfig :
              job.crawlConfig[member]
                = Supplied(input, "crawlConfig", member, defaultCrawlConfig[member])
         /\ \A member \in DOMAIN defaultTestMatrix :
              job.testMatrix[member]
                = Supplied(input, "testMatrix", member, defaultTestMatrix[member])
         /\ maxPagesOf(job.crawlConfig) = job.crawlConfig.maxPages

\* updateJob on its own, one call at a time: any of the urls absent, empty,
\* relative or absolute, and an input that may also name members updateJob is
\* to keep.
UpdateInputs ==
  {[none \in {} |-> none], [id |-> 2], [createdAt |-> 1, status |-> "completed"]}

StepUpdate(p, c) ==
  \/ ComparisonJobService_updateJob(p, c)
  \/ FileStorage_save_begin(p)
  \/ FileStorage_load_saved(p)
  \/ FileStorage_save_end(p)
  \/ Reply(p)

NextUpdate ==
  \E p \in SeqProcs :
    StepUpdate(p, [urls |-> Urls, calls |-> MaxSeqCalls, clock |-> MaxClock,
                   updates |-> UpdateInputs])

InitUpdate == InitWith({AbsentDisk, OkDisk(FileLegacyRun), OkDisk(FileCurrent), OkDisk(FileTwoJobs)})

SpecUpdate == InitUpdate /\ [][NextUpdate]_vars

\* the url a job would have after the update
UrlAfter(given, existing) == IF given = Undef THEN existing ELSE given

\* C31: updateJob keeps the job's id, createdAt, migratedFrom and
\* snapshotVersion whatever the input holds and changes no other job, no run
\* and no artifact; an unknown id is answered not-found, a touched URL that
\* leaves the pair missing or equal is answered invalid-input, and in both
\* cases the stored snapshot is as the call loaded it.
C31_UpdateJobEffect ==
  \A p \in Procs :
    (procs[p].pc = "reply" /\ procs[p].op = "updateJob") =>
      LET pre == procs[p].snap
          input == procs[p].input
          jobIndex == FindIndex(pre.comparisonJobs, procs[p].id)
      IN /\ Persisted
         /\ IF jobIndex = 0
            THEN procs[p].res = "not_found" /\ load(Snap, clock) = pre
            ELSE LET existingJob == pre.comparisonJobs[jobIndex]
                     baselineUrl == UrlAfter(input.baselineUrl, existingJob.baselineUrl)
                     candidateUrl == UrlAfter(input.candidateUrl, existingJob.candidateUrl)
                     touched == input.baselineUrl # Undef \/ input.candidateUrl # Undef
                 IN IF /\ touched
                       /\ \/ ~Truthy(baselineUrl) \/ ~Truthy(candidateUrl)
                          \/ baselineUrl = candidateUrl
                    THEN procs[p].res = "invalid" /\ load(Snap, clock) = pre
                    ELSE /\ procs[p].res = "ok"
                         /\ Len(Snap.comparisonJobs) = Len(pre.comparisonJobs)
                         /\ \A i \in DOMAIN pre.comparisonJobs :
                              IF i = jobIndex
                              THEN /\ Snap.comparisonJobs[i].id = existingJob.id
                                   /\ Snap.comparisonJobs[i].createdAt = existingJob.createdAt
                                   /\ Snap.comparisonJobs[i].migratedFrom
                                        = existingJob.migratedFrom
                                   /\ Snap.comparisonJobs[i].snapshotVersion
                                        = existingJob.snapshotVersion
                              ELSE Snap.comparisonJobs[i] = pre.comparisonJobs[i]
                         /\ [Snap EXCEPT !.comparisonJobs = pre.comparisonJobs] = pre

\* ---------------------------------------------------------- visual diff
\* diffRatio = numDiffPixels / totalPixels is kept as the fraction itself;
\* ratio > n / d is decided on the whole numbers.
Ratio(num, den) == [num |-> num, den |-> den]

Above(ratio, num, den) == ratio.num * den > num * ratio.den

\* calculateSeverity with the layout shift left out of the test for high
calculateSeverity_ratioOnly(diffPercentage, hasLayoutShifts) ==
  IF diffPercentage.num = 0 /\ ~hasLayoutShifts THEN "none"
  ELSE IF hasLayoutShifts /\ Above(diffPercentage, 5, 10) THEN "critical"
  ELSE IF Above(diffPercentage, 3, 10) THEN "high"
  ELSE IF Above(diffPercentage, 1, 10) THEN "medium"
  ELSE IF Above(diffPercentage, 5, 100) THEN "low"
  ELSE "none"

calculateSeverity(diffPercentage, hasLayoutShifts) ==
  IF diffPercentage.num = 0 /\ ~hasLayoutShifts THEN "none"
  ELSE IF hasLayoutShifts /\ Above(diffPercentage, 5, 10) THEN "critical"
  ELSE IF hasLayoutShifts \/ Above(diffPercentage, 3, 10) THEN "high"
  ELSE IF Above(diffPercentage, 1, 10) THEN "medium"
  ELSE IF Above(diffPercentage, 5, 100) THEN "low"
  ELSE "none"

\* compareScreenshots from the pixelmatch count on: the metrics, the layout
\* shifts found, the severity
VisualDiffService_compareScreenshots ==
  /\ calc.fn = "compareScreenshots"
  /\ calc.pc = "call"
  /\ calc' = [calc EXCEPT
                !.pc = "done",
                !.severity = calculateSeverity(Ratio(calc.numDiffPixels, calc.totalPixels),
                                               calc.layoutShifts > 0)]
  /\ UNCHANGED Store

\* compareScreenshots on its own: images of 1..MaxPixels pixels, any number of
\* them different, with no, one or two layout shifts
InitVisual ==
  /\ InitAgents
  /\ \E totalPixels \in 1..MaxPixels, layoutShifts \in 0..2 :
       \E numDiffPixels \in 0..totalPixels :
         calc = [fn |-> "compareScreenshots", pc |-> "call", totalPixels |-> totalPixels,
                 numDiffPixels |-> numDiffPixels, layoutShifts |-> layoutShifts,
                 severity |-> "none"]

NextVisual == VisualDiffService_compareScreenshots

SpecVisual == InitVisual /\ [][NextVisual]_vars

CompareDone == calc.fn = "compareScreenshots" /\ calc.pc = "done"

\* C32: the severity of a screenshot diff is the first matching row of the
\* table over (diffRatio, hasLayoutShift): none for ratio 0 without a shift,
\* critical for a shift with ratio > 0.5, high for a shift or ratio > 0.3,
\* medium for ratio > 0.1, low for ratio > 0.05, none otherwise.
C32_VisualSeverityTable ==
  CompareDone =>
    LET n == calc.numDiffPixels
        t == calc.totalPixels
        shift == calc.layoutShifts > 0
        rows == <<[when |-> n = 0 /\ ~shift, severity |-> "none"],
                  [when |-> shift /\ 10 * n > 5 * t, severity |-> "critical"],
                  [when |-> shift \/ 10 * n > 3 * t, severity |-> "high"],
                  [when |-> 10 * n > t, severity |-> "medium"],
                  [when |-> 20 * n > t, severity |-> "low"],
                  [when |-> TRUE, severity |-> "none"]>>
        first == CHOOSE i \in DOMAIN rows :
                   rows[i].when /\ \A j \in DOMAIN rows : rows[j].when => i <= j
    IN calc.severity = rows[first].severity

\* a shifted layout with a ratio of at most 0.3 was classified high
C32_Witness ==
  /\ CompareDone
  /\ calc.layoutShifts > 0
  /\ 10 * calc.numDiffPixels <= 3 * calc.totalPixels
  /\ calc.severity = "high"

\* C33: with config.depth = 0 crawlSite crawls only the seed url: its result
\* holds no page other than the page of the site's root url.
C33_DepthZeroOnlySeed ==
  (calc.fn = "crawlSite" /\ calc.config.depth = 0)
    => \A i \in DOMAIN calc.pages : calc.pages[i].url = normalizeUrl(baseUrl)

ComparisonJobService_getJobById(p, c) ==
  /\ up /\ procs[p].pc = "idle"
  /\ \A q \in Procs : procs[q].pc = "idle" => ~Before(q, p)
  /\ \E id \in ArgIds, now \in Nows(c.clock) :
       LET s == Loaded(now)
           res == IF FindIndex(s.comparisonJobs, id) = 0 THEN "404" ELSE "200"
       IN /\ Begin(p, "getJobById", id, s, res, s)
          /\ clock' = now
  /\ UNCHANGED <<disk, nextId, up, calls, History>>

\* the REST calls on jobs: POST /api/jobs, GET and DELETE /api/jobs/:id, the
\* handlers interleaving at their awaits
StepRest(p, c) ==
  \/ ComparisonJobService_createJob(p, c)
  \/ ComparisonJobService_deleteJob(p, c)
  \/ ComparisonJobService_getJobById(p, c)
  \/ FileStorage_save_begin(p)
  \/ FileStorage_load_saved(p)
  \/ FileStorage_save_end(p)
  \/ Reply(p)

NextRest == \E p \in Procs : StepRest(p, [urls |-> ConcUrls, calls |-> MaxCalls, clock |-> 0])

InitRest == InitWith({AbsentDisk, OkDisk(FileCurrent)})

SpecRest == InitRest /\ [][NextRest]_vars

\* a GET /api/jobs/:id arrives while no other call is being handled
GetArrives(p) ==
  /\ \A q \in Procs : procs[q].pc = "idle"
  /\ procs'[p].op = "getJobById"

\* C35: GET /api/jobs/:id answers 200 with the job for every id an earlier
\* POST /api/jobs returned with 201 and no DELETE has been answered 204 for
\* since, and 404 for an id that was never created or whose DELETE was
\* answered 204.  Every earlier call has been answered when the GET arrives.
C35_GetAfterPostAndDelete ==
  [][\A p \in Procs :
       GetArrives(p) =>
         LET id == procs'[p].id
             s == procs'[p].snap
         IN /\ id \in created \ deleted
                 => /\ procs'[p].res = "200"
                    /\ s.comparisonJobs[FindIndex(s.comparisonJobs, id)].id = id
            /\ (id = NoId \/ id \in deleted) => procs'[p].res = "404"]_vars

\* C36: when the staged pipeline runs a job whose pageMap is empty and the
\* crawl matches at least one page, the page map written to the job during the
\* run is still the job's pageMap in the snapshot persisted when the run has
\* reached its terminal state.
C36_GeneratedPageMapKept ==
  (pipe.pc = "returned" /\ pipe.matched /\ pipe.job.pageMap = << >>)
    => /\ disk.state = "ok"
       /\ pipe.job.id \in IdsOf(disk.snap.comparisonJobs)
       /\ disk.snap.comparisonJobs[FindIndex(disk.snap.comparisonJobs, pipe.job.id)].pageMap
            = pageMapJob(pipe.job, pipe.now).pageMap

\* ---------------------------------------------------------- executive summary
\* x || y of numbers: the first that is not 0
OrElse(x, y) == IF x # 0 THEN x ELSE y

\* result?.member || 0 of an optional stage result
MemberOrZero(result, member) == IF result = NotInMap THEN 0 ELSE result[member]

\* keyMetrics of generateExecutiveSummary.  passRate is Math.round of
\* (totalPages - issuesFound) / totalPages * 100, and Math.round(x) is
\* floor(x + 0.5), for a negative x too
keyMetrics(aiResult, visualResult, functionalResult, dataResult) ==
  LET baseline == IF functionalResult = NotInMap THEN NotInMap ELSE functionalResult.baseline
      totalPages == OrElse(MemberOrZero(visualResult, "totalPages"),
                           OrElse(MemberOrZero(baseline, "totalPages"),
                                  OrElse(MemberOrZero(dataResult, "totalPages"), 0)))
      issuesFound == MemberOrZero(visualResult, "pagesWithDiffs")
                     + MemberOrZero(baseline, "totalBrokenLinks")
                     + MemberOrZero(baseline, "totalJSErrors")
                     + MemberOrZero(dataResult, "totalFieldDiffs")
      criticalIssues == MemberOrZero(visualResult, "criticalIssues")
                        + MemberOrZero(dataResult, "criticalMismatches")
  IN [pagesTested |-> totalPages, issuesFound |-> issuesFound,
      criticalIssues |-> criticalIssues,
      passRate |-> IF totalPages > 0
                   THEN RoundDiv((totalPages - issuesFound) * 100, totalPages)
                   ELSE IF aiResult.overallPass THEN 100 ELSE 0]

\* generateReport on the results of the diff stages: calculateRiskScore, then
\* generateExecutiveSummary with its key metrics and its decision
ReportAgent_generateReport_ofResults ==
  /\ calc.fn = "generateReportOfResults" /\ calc.pc = "call"
  /\ LET riskScore == calculateRiskScore(calc.aiResult)
         metrics == keyMetrics(calc.aiResult, calc.visual, calc.functional, calc.data)
     IN calc' = [calc EXCEPT
                   !.pc = "done", !.riskScore = riskScore, !.keyMetrics = metrics,
                   !.goNoGo = goNoGo(riskScore.overall, calc.aiResult.overallPass,
                                     metrics.criticalIssues)]
  /\ UNCHANGED Store

\* The summaries of the diff stages over up to MaxSitePages matched pages: a
\* page has a visual difference or not, and any number of broken links, JS
\* errors and field differences up to MaxFindings.
MaxFindings == 2

VisualResults ==
  {r \in [totalPages : 0..MaxSitePages, pagesWithDiffs : 0..MaxSitePages,
          criticalIssues : 0..MaxCritical] : r.pagesWithDiffs <= r.totalPages}

FunctionalSiteResults ==
  [totalPages : 0..MaxSitePages, totalBrokenLinks : 0..MaxFindings, totalJSErrors : 0..1]

DataResults ==
  [totalPages : 0..MaxSitePages, totalFieldDiffs : 0..MaxFindings,
   criticalMismatches : 0..MaxCritical]

\* reasoning results: no analysis, or one of each category with one severity
SummaryAiResults ==
  {[categoryAnalyses |-> AnalysesOf([c \in CategorySet |-> sev]),
    overallSeverity |-> overall, overallPass |-> pass] :
     sev \in SeveritySet \cup {"absent"}, overall \in {"none", "high"}, pass \in BOOLEAN}

InitSummary ==
  /\ InitAgents
  /\ \E aiResult \in SummaryAiResults, visual \in VisualResults \cup {NotInMap},
        baseline \in FunctionalSiteResults \cup {NotInMap},
        data \in DataResults \cup {NotInMap} :
       calc = [fn |-> "generateReportOfResults", pc |-> "call", aiResult |-> aiResult,
               visual |-> visual,
               functional |-> IF baseline = NotInMap THEN NotInMap
                              ELSE [baseline |-> baseline, candidate |-> baseline],
               data |-> data,
               riskScore |-> [overall |-> 0, visual |-> 0, functional |-> 0,
                              data |-> 0, seo |-> 0],
               keyMetrics |-> [pagesTested |-> 0, issuesFound |-> 0, criticalIssues |-> 0,
                               passRate |-> 0],
               goNoGo |-> "none"]

NextSummary == ReportAgent_generateReport_ofResults

SpecSummary == InitSummary /\ [][NextSummary]_vars

\* C37: for all results of the diff stages the pass rate of the executive
\* summary's key metrics is a percentage between 0 and 100, and the overall
\* risk score reported is between 0 and 100.
C37_PassRateAndRiskArePercentages ==
  (calc.fn = "generateReportOfResults" /\ calc.pc = "done")
    => /\ calc.keyMetrics.passRate \in 0..100
       /\ calc.riskScore.overall \in 0..100

====
